---------------------------- MODULE Spec2Model ----------------------------
(***************************************************************************)
(* promptkit (package pk): the parameter-merge / validate / render         *)
(* pipeline and the template store of pk/render.py, the render and doctor  *)
(* commands of pk/cli.py and the doctor of pk/doctor.py, as state machines.*)
(*                                                                         *)
(* Python values are tagged records [kind, val]; a dict is a function from *)
(* its keys; an Optional[dict] is a record [some, val].                    *)
(***************************************************************************)
EXTENDS Integers, Sequences, FiniteSets, TLC

VARIABLES
    pc,              \* position of the operation being run
    schema,          \* the template's JSON schema (dict)
    preset_params,   \* Optional[dict]: parameters of the preset
    file_params,     \* Optional[dict]: parameters of the --params file
    cli_overrides,   \* Optional[dict]: parameters of the --set flags
    merged,          \* the dict merge_params returned
    override,        \* the str given to parse_cli_override
    parsed,          \* what parse_cli_override returned or raised
    validation,      \* what validate_params returned or raised
    template_content,\* the template given to render, as its parsed nodes
    rendered,        \* what render returned or raised
    fs,              \* the files and directories outside the store, by path
    clock,           \* the time now, in ticks
    template_name,   \* the template name given to the last call
    started,         \* the tick at which the last call of emit_run_packet began
    calls,           \* how many calls of emit_run_packet were made
    emitted,         \* what the last call of emit_run_packet returned or raised
    store,           \* the template store
    args,            \* the arguments of the command
    stdout,          \* what the command wrote to the output stream
    stderr,          \* what the command wrote to the error stream
    exit_code,       \* the exit status of the command, once pc = "exited"
    report,          \* what the doctor returned or raised
    added,           \* the results given to DoctorReport.add so far
    original,        \* a text given to normalize_text
    changed,         \* a second text, made from the first
    normalized,      \* what normalize_text returned for the two texts
    outcome,         \* what a function of the template store returned or raised
    emitters         \* the calls of emit_run_packet under way, by process

mergeVars == <<schema, preset_params, file_params, cli_overrides, merged>>
overrideVars == <<override, parsed>>
validateVars == <<validation>>
renderVars == <<template_content, rendered>>
packetVars == <<fs, clock, template_name, started, calls, emitted>>
cmdVars == <<store, args, stdout, stderr, exit_code>>
doctorVars == <<report, added>>
normalizeVars == <<original, changed, normalized>>
lookupVars == <<outcome>>
raceVars == <<emitters>>

vars ==
    <<pc, mergeVars, overrideVars, validateVars, renderVars, packetVars, cmdVars, doctorVars,
      normalizeVars, lookupVars, raceVars>>

-----------------------------------------------------------------------------
(* Python values *)

EmptyMap == [k \in {} |-> 0]

IntV(n) == [kind |-> "int", val |-> n]
StrV(s) == [kind |-> "str", val |-> s]
BoolV(b) == [kind |-> "bool", val |-> b]
ObjV(m) == [kind |-> "obj", val |-> m]

None == [some |-> FALSE, val |-> EmptyMap]
Some(m) == [some |-> TRUE, val |-> m]

\* `if d:` on an Optional[dict]: None and {} are both falsy
Truthy(opt) == opt.some /\ DOMAIN opt.val # {}

\* all dicts with keys among K and values among V
Dicts(K, V) == UNION {[D -> V] : D \in SUBSET K}

Optionals(K, V) == {None} \cup {Some(m) : m \in Dicts(K, V)}

NullV == [kind |-> "null", val |-> 0]
\* a datetime.date, which yaml.safe_load makes of 2024-01-01
DateV(d) == [kind |-> "date", val |-> d]
ListV(l) == [kind |-> "list", val |-> l]

\* what a function call did: it returned val, or raised the exception named
Returned(v) == [raised |-> "", val |-> v]
Raised(e) == [raised |-> e, val |-> NullV]
NotCalled == [raised |-> "not called", val |-> NullV]
\* raise e(m)
Raise(e, m) == [raised |-> e, val |-> StrV(m)]

\* the subclasses of TemplateError, and itself
TemplateErrors ==
    {"TemplateError", "TemplateNotFoundError", "PresetNotFoundError",
     "SchemaValidationError", "RenderError"}

-----------------------------------------------------------------------------
(* The variables a specification does not use keep their idle values. *)

MergeIdle ==
    /\ schema = [title |-> "t"]
    /\ preset_params = None
    /\ file_params = None
    /\ cli_overrides = None
    /\ merged = EmptyMap

OverrideIdle ==
    /\ override = ""
    /\ parsed = NotCalled

\* the outcome of validate_params: silent, or SchemaValidationError(message, errors)
Silent == [raised |-> "", message |-> "", errors |-> <<>>]
NotValidated == [raised |-> "not called", message |-> "", errors |-> <<>>]

ValidateIdle == validation = NotValidated

RenderIdle == template_content = <<>> /\ rendered = NotCalled

PacketIdle ==
    /\ fs = EmptyMap
    /\ clock = 0
    /\ template_name = ""
    /\ started = 0
    /\ calls = 0
    /\ emitted = NotCalled

NoArgs ==
    [template |-> "", preset |-> "", params_file |-> "", overrides |-> <<>>,
     output_file |-> "", output_format |-> "", run_dir |-> ""]

CmdIdle ==
    /\ store = EmptyMap
    /\ args = NoArgs
    /\ stdout = <<>>
    /\ stderr = <<>>
    /\ exit_code = 0

DoctorIdle == report = NotCalled /\ added = <<>>

NormalizeIdle == original = "" /\ changed = "" /\ normalized = <<>>

LookupIdle == outcome = NotCalled

RaceIdle == emitters = <<>>

IdleExcept(G) ==
    /\ IF "merge" \in G THEN TRUE ELSE MergeIdle
    /\ IF "override" \in G THEN TRUE ELSE OverrideIdle
    /\ IF "validate" \in G THEN TRUE ELSE ValidateIdle
    /\ IF "render" \in G THEN TRUE ELSE RenderIdle
    /\ IF "packet" \in G THEN TRUE ELSE PacketIdle
    /\ IF "cmd" \in G THEN TRUE ELSE CmdIdle
    /\ IF "doctor" \in G THEN TRUE ELSE DoctorIdle
    /\ IF "normalize" \in G THEN TRUE ELSE NormalizeIdle
    /\ IF "lookup" \in G THEN TRUE ELSE LookupIdle
    /\ IF "race" \in G THEN TRUE ELSE RaceIdle

Frame(G) ==
    /\ IF "merge" \in G THEN TRUE ELSE UNCHANGED mergeVars
    /\ IF "override" \in G THEN TRUE ELSE UNCHANGED overrideVars
    /\ IF "validate" \in G THEN TRUE ELSE UNCHANGED validateVars
    /\ IF "render" \in G THEN TRUE ELSE UNCHANGED renderVars
    /\ IF "packet" \in G THEN TRUE ELSE UNCHANGED packetVars
    /\ IF "cmd" \in G THEN TRUE ELSE UNCHANGED cmdVars
    /\ IF "doctor" \in G THEN TRUE ELSE UNCHANGED doctorVars
    /\ IF "normalize" \in G THEN TRUE ELSE UNCHANGED normalizeVars
    /\ IF "lookup" \in G THEN TRUE ELSE UNCHANGED lookupVars
    /\ IF "race" \in G THEN TRUE ELSE UNCHANGED raceVars

-----------------------------------------------------------------------------
(* pk/render.py: get_schema_defaults, merge_params *)

\* a variant of dict.update that combines two nested objects field by field
UpdateDeep(base, layer) ==
    [k \in DOMAIN base \cup DOMAIN layer |->
        IF k \notin DOMAIN layer THEN base[k]
        ELSE IF k \in DOMAIN base /\ base[k].kind = "obj" /\ layer[k].kind = "obj"
             THEN ObjV([j \in DOMAIN base[k].val \cup DOMAIN layer[k].val |->
                          IF j \in DOMAIN layer[k].val
                          THEN layer[k].val[j] ELSE base[k].val[j]])
             ELSE layer[k]]

\* dict.update(layer): the keys of layer overwrite those of base
Update(base, layer) ==
    [k \in DOMAIN base \cup DOMAIN layer |->
        IF k \in DOMAIN layer THEN layer[k] ELSE base[k]]

get_schema_defaults(s) ==
    LET properties == IF "properties" \in DOMAIN s THEN s["properties"] ELSE EmptyMap
    IN  [k \in {p \in DOMAIN properties : "default" \in DOMAIN properties[p]} |->
            properties[k]["default"]]

merge_params(s, preset, file, cli) ==
    LET m0 == get_schema_defaults(s)
        m1 == IF Truthy(preset) THEN Update(m0, preset.val) ELSE m0
        m2 == IF Truthy(file) THEN Update(m1, file.val) ELSE m1
    IN  IF Truthy(cli) THEN Update(m2, cli.val) ELSE m2

\* a variant of merge_call that overlays onto the preset's own dict
\* (merged = preset_params) in place of a new one
merge_call_in_place(s, preset, file, cli) ==
    [merged |-> merge_params(s, preset, file, cli),
     schema |-> s,
     preset_params |-> IF Truthy(preset) THEN Some(merge_params(s, preset, file, cli))
                       ELSE preset,
     file_params |-> file,
     cli_overrides |-> cli]

\* a call of merge_params: what it returns, and the objects passed to it as
\* they are after the call.  The dict that the updates of lines 293-302 change
\* is the new one that get_schema_defaults made (line 255); nothing is
\* assigned into the schema or into a layer.
merge_call(s, preset, file, cli) ==
    [merged |-> merge_params(s, preset, file, cli),
     schema |-> s,
     preset_params |-> preset,
     file_params |-> file,
     cli_overrides |-> cli]

-----------------------------------------------------------------------------
(* The inputs of the merge specification *)

MergeKeys == {"a", "b"}

O1 == ObjV([x \in {"x"} |-> IntV(1)])
O2 == ObjV([y \in {"y"} |-> IntV(2)])

MergeVals == {IntV(1), O1, O2}

MergePropSchemas ==
    {[type |-> "object"]} \cup {[type |-> "object", default |-> v] : v \in MergeVals}

MergeSchemas ==
    {[title |-> "t"]} \cup
    {[title |-> "t", properties |-> p] : p \in Dicts(MergeKeys, MergePropSchemas)}

InitMerge ==
    /\ pc = "merge"
    /\ schema \in MergeSchemas
    /\ preset_params \in Optionals(MergeKeys, MergeVals)
    /\ file_params \in Optionals(MergeKeys, MergeVals)
    /\ cli_overrides \in Optionals(MergeKeys, MergeVals)
    /\ merged = EmptyMap
    /\ IdleExcept({"merge"})

MergeParams ==
    /\ pc = "merge"
    /\ merged' = merge_call(schema, preset_params, file_params, cli_overrides).merged
    /\ schema' = merge_call(schema, preset_params, file_params, cli_overrides).schema
    /\ preset_params' =
          merge_call(schema, preset_params, file_params, cli_overrides).preset_params
    /\ file_params' = merge_call(schema, preset_params, file_params, cli_overrides).file_params
    /\ cli_overrides' =
          merge_call(schema, preset_params, file_params, cli_overrides).cli_overrides
    /\ pc' = "merged"
    /\ Frame({"merge"})

NextMerge == MergeParams

SpecMerge == InitMerge /\ [][NextMerge]_vars

-----------------------------------------------------------------------------
(* C1 *)

Has(opt, k) == opt.some /\ k \in DOMAIN opt.val

HasDefault(s, k) ==
    /\ "properties" \in DOMAIN s
    /\ k \in DOMAIN s["properties"]
    /\ "default" \in DOMAIN s["properties"][k]

\* the value of the highest-precedence source that contains k
TopSource(k) ==
    IF Has(cli_overrides, k) THEN cli_overrides.val[k]
    ELSE IF Has(file_params, k) THEN file_params.val[k]
    ELSE IF Has(preset_params, k) THEN preset_params.val[k]
    ELSE schema["properties"][k]["default"]

\* C1: merge_params returns a mapping whose keys are exactly the schema
\* properties with a default plus the keys of the preset, file and CLI layers,
\* each key holding the value of its highest-precedence source (CLI > file >
\* preset > schema default), a nested object taken whole from that source.
C1_MergePrecedence ==
    pc = "merged" =>
        /\ DOMAIN merged =
              {k \in MergeKeys : \/ HasDefault(schema, k)
                                 \/ Has(preset_params, k)
                                 \/ Has(file_params, k)
                                 \/ Has(cli_overrides, k)}
        /\ \A k \in DOMAIN merged : merged[k] = TopSource(k)

\* a key given by all four sources, the preset and the CLI layer giving
\* different nested objects, has been merged
C1_Witness ==
    /\ pc = "merged"
    /\ \E k \in MergeKeys :
          /\ HasDefault(schema, k)
          /\ Has(preset_params, k) /\ preset_params.val[k] = O1
          /\ Has(file_params, k) /\ file_params.val[k] = IntV(1)
          /\ Has(cli_overrides, k) /\ cli_overrides.val[k] = O2
          /\ merged[k] = O2
    /\ \E k \in MergeKeys :
          /\ Has(preset_params, k) /\ preset_params.val[k] = O1
          /\ Has(file_params, k) /\ file_params.val[k] = O2
          /\ ~Has(cli_overrides, k)
          /\ merged[k] = O2

-----------------------------------------------------------------------------
(* Python str operations.  A str is a TLA+ string; positions are 1-based. *)

\* s[i-1:i]: the character at position i, "" outside the string
At(s, i) == IF 1 <= i /\ i <= Len(s) THEN SubSeq(s, i, i) ELSE ""

\* s[i-1:j]
Slice(s, i, j) ==
    LET hi == IF j > Len(s) THEN Len(s) ELSE j
    IN  IF i < 1 \/ i > hi THEN "" ELSE SubSeq(s, i, hi)

MinOf(S) == CHOOSE x \in S : \A y \in S : x <= y
MaxOf(S) == CHOOSE x \in S : \A y \in S : y <= x

\* `c in s`
Contains(s, c) == \E i \in 1..Len(s) : At(s, i) = c

\* s.find(c) + 1: the first position of c, 0 when absent
Find(s, c) ==
    LET I == {i \in 1..Len(s) : At(s, i) = c}
    IN  IF I = {} THEN 0 ELSE MinOf(I)

Whitespace == {" ", "\t", "\n", "\r"}

\* str.strip()
strip(s) ==
    LET I == {i \in 1..Len(s) : At(s, i) \notin Whitespace}
    IN  IF I = {} THEN "" ELSE SubSeq(s, MinOf(I), MaxOf(I))

Uppers == "ABCDEFGHIJKLMNOPQRSTUVWXYZ"
Lowers == "abcdefghijklmnopqrstuvwxyz"

LowerChar(c) ==
    LET I == {i \in 1..Len(Uppers) : At(Uppers, i) = c}
    IN  IF I = {} THEN c ELSE At(Lowers, MinOf(I))

\* str.lower()
RECURSIVE lower(_)
lower(s) == IF s = "" THEN "" ELSE LowerChar(Head(s)) \o lower(Tail(s))

DigitChars == "0123456789"

IsDigit(c) == c # "" /\ Contains(DigitChars, c)

DigitVal(c) == Find(DigitChars, c) - 1

\* a run of digits in which single underscores may separate digits
DigitRun(s) ==
    /\ s # ""
    /\ IsDigit(At(s, 1))
    /\ IsDigit(At(s, Len(s)))
    /\ \A i \in 1..Len(s) : IsDigit(At(s, i)) \/ At(s, i) = "_"
    /\ \A i \in 1..Len(s) - 1 : ~(At(s, i) = "_" /\ At(s, i + 1) = "_")

\* the number a digit run spells, underscores skipped ("" spells 0)
RECURSIVE DigitsValue(_, _)
DigitsValue(s, acc) ==
    IF s = "" THEN acc
    ELSE IF Head(s) = "_" THEN DigitsValue(Tail(s), acc)
    ELSE DigitsValue(Tail(s), 10 * acc + DigitVal(Head(s)))

DigitCount(s) == Cardinality({i \in 1..Len(s) : IsDigit(At(s, i))})

\* a float is m * 10^e, or a special value; m carries the sign
FloatV(m, e) == [kind |-> "float", val |-> [m |-> m, e |-> e, sp |-> ""]]
FloatSpecial(sp) == [kind |-> "float", val |-> [m |-> 0, e |-> 0, sp |-> sp]]

\* m * 10^e without trailing zeros in m
RECURSIVE NormFloat(_, _)
NormFloat(m, e) ==
    IF m = 0 THEN FloatV(0, 0)
    ELSE IF m % 10 = 0 THEN NormFloat(m \div 10, e + 1)
    ELSE FloatV(m, e)

Conv(ok, v) == [ok |-> ok, val |-> v]
ValueError == Conv(FALSE, NullV)

(* int(s) and float(s): [ok, val]; ok = FALSE stands for ValueError.  Each *)
(* step hands what it computed to the next as an argument.                 *)

IntOfBody(neg, body) ==
    IF DigitRun(body)
    THEN Conv(TRUE, IntV(IF neg THEN 0 - DigitsValue(body, 0) ELSE DigitsValue(body, 0)))
    ELSE ValueError

IntOfStripped(t) ==
    IntOfBody(At(t, 1) = "-", IF At(t, 1) \in {"+", "-"} THEN Tail(t) ELSE t)

py_int(s) == IntOfStripped(strip(s))

\* the digits ip.fp with exponent expVal
FloatOfDigits(neg, ip, fp, expVal) ==
    IF /\ ip = "" \/ DigitRun(ip)
       /\ fp = "" \/ DigitRun(fp)
       /\ ~(ip = "" /\ fp = "")
    THEN Conv(TRUE, NormFloat(IF neg THEN 0 - DigitsValue(ip \o fp, 0)
                              ELSE DigitsValue(ip \o fp, 0),
                              expVal - DigitCount(fp)))
    ELSE ValueError

FloatOfMantissa(neg, mant, dpos, expVal) ==
    IF dpos = 0
    THEN (IF mant = "" THEN ValueError ELSE FloatOfDigits(neg, mant, "", expVal))
    ELSE FloatOfDigits(neg, Slice(mant, 1, dpos - 1),
                       Slice(mant, dpos + 1, Len(mant)), expVal)

FloatOfExpBody(neg, mant, expNeg, expBody) ==
    IF DigitRun(expBody)
    THEN FloatOfMantissa(neg, mant, Find(mant, "."),
                         IF expNeg THEN 0 - DigitsValue(expBody, 0)
                         ELSE DigitsValue(expBody, 0))
    ELSE ValueError

FloatOfParts(neg, body, epos) ==
    IF epos = 0 THEN FloatOfMantissa(neg, body, Find(body, "."), 0)
    ELSE FloatOfExpBody(neg, Slice(body, 1, epos - 1), At(body, epos + 1) = "-",
                        IF At(body, epos + 1) \in {"+", "-"}
                        THEN Slice(body, epos + 2, Len(body))
                        ELSE Slice(body, epos + 1, Len(body)))

\* the first position of e or E, 0 when absent
FindExp(body) ==
    LET I == {i \in 1..Len(body) : At(body, i) \in {"e", "E"}}
    IN  IF I = {} THEN 0 ELSE MinOf(I)

FloatOfWord(neg, body, low) ==
    IF low \in {"inf", "infinity"}
    THEN Conv(TRUE, FloatSpecial(IF neg THEN "-inf" ELSE "inf"))
    ELSE IF low = "nan" THEN Conv(TRUE, FloatSpecial("nan"))
    ELSE FloatOfParts(neg, body, FindExp(body))

FloatOfBody(neg, body) == FloatOfWord(neg, body, lower(body))

FloatOfStripped(t) ==
    FloatOfBody(At(t, 1) = "-", IF At(t, 1) \in {"+", "-"} THEN Tail(t) ELSE t)

py_float(s) == FloatOfStripped(strip(s))

-----------------------------------------------------------------------------
(* json.loads, for texts without backslash escapes.  A scan result is      *)
(* [ok, val, end]: end is the position after the value; ok = FALSE stands  *)
(* for json.JSONDecodeError.                                               *)

Scanned(v, e) == [ok |-> TRUE, val |-> v, end |-> e]
ScanFail == [ok |-> FALSE, val |-> NullV, end |-> 0]

\* the first position from i on that holds no JSON whitespace
SkipWS(s, i) ==
    LET I == {j \in i..Len(s) : At(s, j) \notin Whitespace}
    IN  IF I = {} THEN (IF i > Len(s) THEN i ELSE Len(s) + 1) ELSE MinOf(I)

\* the first position from i on that holds no digit
DigitsEnd(s, i) ==
    LET I == {j \in i..Len(s) : ~IsDigit(At(s, j))}
    IN  IF I = {} THEN (IF i > Len(s) THEN i ELSE Len(s) + 1) ELSE MinOf(I)

\* NUMBER_RE.match(s, i): an optional "-", then "0" or a run of digits, then an
\* optional "." with digits, then an optional e or E, sign and digits; and the
\* int(...) or float(...) the scanner makes of the match

NumberValue(s, i, intEnd, fracEnd, expEnd) ==
    IF expEnd = intEnd
    THEN Scanned(py_int(Slice(s, i, intEnd - 1)).val, intEnd)
    ELSE Scanned(py_float(Slice(s, i, expEnd - 1)).val, expEnd)

\* q is the position of the first digit an exponent would have
NumberExp(s, i, intEnd, fracEnd, q) ==
    NumberValue(s, i, intEnd, fracEnd,
                IF At(s, fracEnd) \in {"e", "E"} /\ IsDigit(At(s, q))
                THEN DigitsEnd(s, q) ELSE fracEnd)

NumberFrac(s, i, intEnd, fracEnd) ==
    NumberExp(s, i, intEnd, fracEnd,
              IF At(s, fracEnd + 1) \in {"+", "-"} THEN fracEnd + 2 ELSE fracEnd + 1)

NumberInt(s, i, intEnd) ==
    NumberFrac(s, i, intEnd,
               IF At(s, intEnd) = "." /\ IsDigit(At(s, intEnd + 1))
               THEN DigitsEnd(s, intEnd + 1) ELSE intEnd)

NumberFrom(s, i, p1) ==
    IF ~IsDigit(At(s, p1)) THEN ScanFail
    ELSE NumberInt(s, i, IF At(s, p1) = "0" THEN p1 + 1 ELSE DigitsEnd(s, p1))

match_number(s, i) == NumberFrom(s, i, IF At(s, i) = "-" THEN i + 1 ELSE i)

StringUpTo(s, i, close) ==
    IF close = 0 THEN ScanFail
    ELSE IF \E j \in i..close - 1 : At(s, j) \in {"\t", "\n", "\r"} THEN ScanFail
    ELSE Scanned(StrV(Slice(s, i, close - 1)), close + 1)

\* scanstring(s, i): i is the position after the opening quote
scanstring(s, i) ==
    LET I == {j \in i..Len(s) : At(s, j) = "\""}
    IN  StringUpTo(s, i, IF I = {} THEN 0 ELSE MinOf(I))

RECURSIVE scan_once(_, _)

\* JSONArray, i the position of the next item: the loop of the decoder
RECURSIVE JSONArrayItems(_, _, _)
ArrayDelimiter(s, k, acc) ==
    IF At(s, k) = "]" THEN Scanned(ListV(acc), k + 1)
    ELSE IF At(s, k) = "," THEN JSONArrayItems(s, SkipWS(s, k + 1), acc)
    ELSE ScanFail

ArrayItem(s, r, acc) ==
    IF ~r.ok THEN ScanFail
    ELSE ArrayDelimiter(s, SkipWS(s, r.end), Append(acc, r.val))

JSONArrayItems(s, i, acc) == ArrayItem(s, scan_once(s, i), acc)

ArrayFirst(s, j) ==
    IF At(s, j) = "]" THEN Scanned(ListV(<<>>), j + 1)
    ELSE JSONArrayItems(s, j, <<>>)

\* JSONArray: i is the position after "["
JSONArray(s, i) == ArrayFirst(s, SkipWS(s, i))

\* JSONObject, i the position after the opening quote of the next key
RECURSIVE JSONObjectPairs(_, _, _)
ObjectNextKey(s, nxt, acc) ==
    IF At(s, nxt) # "\"" THEN ScanFail
    ELSE JSONObjectPairs(s, nxt + 1, acc)

ObjectDelimiter(s, k, acc) ==
    IF At(s, k) = "}" THEN Scanned(ObjV(acc), k + 1)
    ELSE IF At(s, k) # "," THEN ScanFail
    ELSE ObjectNextKey(s, SkipWS(s, k + 1), acc)

ObjectValue(s, key, v, acc) ==
    IF ~v.ok THEN ScanFail
    ELSE ObjectDelimiter(s, SkipWS(s, v.end), Update(acc, [x \in {key} |-> v.val]))

ObjectColon(s, key, colon, acc) ==
    IF At(s, colon) # ":" THEN ScanFail
    ELSE ObjectValue(s, key, scan_once(s, SkipWS(s, colon + 1)), acc)

ObjectKey(s, k, acc) ==
    IF ~k.ok THEN ScanFail
    ELSE ObjectColon(s, k.val.val, SkipWS(s, k.end), acc)

JSONObjectPairs(s, i, acc) == ObjectKey(s, scanstring(s, i), acc)

ObjectFirst(s, j) ==
    IF At(s, j) = "}" THEN Scanned(ObjV(EmptyMap), j + 1)
    ELSE IF At(s, j) # "\"" THEN ScanFail
    ELSE JSONObjectPairs(s, j + 1, EmptyMap)

\* JSONObject: i is the position after "{"
JSONObject(s, i) == ObjectFirst(s, SkipWS(s, i))

ScanNumber(s, i, c, num) ==
    IF num.ok THEN num
    ELSE IF c = "N" /\ Slice(s, i, i + 2) = "NaN"
    THEN Scanned(FloatSpecial("nan"), i + 3)
    ELSE IF c = "I" /\ Slice(s, i, i + 7) = "Infinity"
    THEN Scanned(FloatSpecial("inf"), i + 8)
    ELSE IF c = "-" /\ Slice(s, i, i + 8) = "-Infinity"
    THEN Scanned(FloatSpecial("-inf"), i + 9)
    ELSE ScanFail

ScanAt(s, i, c) ==
    IF c = "" THEN ScanFail
    ELSE IF c = "\"" THEN scanstring(s, i + 1)
    ELSE IF c = "{" THEN JSONObject(s, i + 1)
    ELSE IF c = "[" THEN JSONArray(s, i + 1)
    ELSE IF c = "n" /\ Slice(s, i, i + 3) = "null" THEN Scanned(NullV, i + 4)
    ELSE IF c = "t" /\ Slice(s, i, i + 3) = "true" THEN Scanned(BoolV(TRUE), i + 4)
    ELSE IF c = "f" /\ Slice(s, i, i + 4) = "false" THEN Scanned(BoolV(FALSE), i + 5)
    ELSE ScanNumber(s, i, c, match_number(s, i))

\* py_make_scanner._scan_once
scan_once(s, i) == ScanAt(s, i, At(s, i))

LoadsEnd(s, r) ==
    IF r.ok /\ SkipWS(s, r.end) = Len(s) + 1 THEN Conv(TRUE, r.val)
    ELSE ValueError

\* json.loads(s): [ok, val]
json_loads(s) == LoadsEnd(s, scan_once(s, SkipWS(s, 1)))

-----------------------------------------------------------------------------
(* pk/render.py: parse_cli_override *)

StartsJSON(value) == At(value, 1) \in {"[", "{"}

\* lines 518-525: float, else the string
CoerceFloat(value, f) == IF f.ok THEN f.val ELSE StrV(value)

\* lines 512-516: int
CoerceInt(value, n) == IF n.ok THEN n.val ELSE CoerceFloat(value, py_float(value))

\* a variant of CoerceBool that tries float before int
CoerceBoolFloatFirst(value, low) ==
    IF low = "true" THEN BoolV(TRUE)
    ELSE IF low = "false" THEN BoolV(FALSE)
    ELSE IF py_float(value).ok THEN py_float(value).val
    ELSE CoerceInt(value, py_int(value))

\* lines 506-510: bool
CoerceBool(value, low) ==
    IF low = "true" THEN BoolV(TRUE)
    ELSE IF low = "false" THEN BoolV(FALSE)
    ELSE CoerceInt(value, py_int(value))

\* lines 499-504: j is what json.loads gave, a failure falling through
CoerceJSON(value, j) == IF j.ok THEN j.val ELSE CoerceBool(value, lower(value))

coerce(value) ==
    CoerceJSON(value, IF StartsJSON(value) THEN json_loads(value) ELSE ValueError)

\* a variant of KeyValue without the empty-key check of lines 496-497
KeyValueAnyKey(key, value) == Returned([key |-> key, value |-> coerce(value)])

\* lines 496-525, key and value already stripped
KeyValue(key, value) ==
    IF key = "" THEN Raised("TemplateError")
    ELSE Returned([key |-> key, value |-> coerce(value)])

\* lines 492-494: split("=", 1) at the first "=", both parts stripped
SplitOverride(o, eq) ==
    KeyValue(strip(Slice(o, 1, eq - 1)), strip(Slice(o, eq + 1, Len(o))))

parse_cli_override(o) ==
    IF ~Contains(o, "=") THEN Raised("TemplateError")
    ELSE SplitOverride(o, Find(o, "="))

-----------------------------------------------------------------------------
(* The inputs of the override specification: every string over            *)
(* OverrideChars up to MaxOverrideLen characters, and OverrideWords.       *)

MaxOverrideLen == 4

OverrideChars == {"k", "=", " ", "[", "]", "1", ".", "e", "-"}

RECURSIVE StringsUpTo(_, _)
StringsUpTo(chars, n) ==
    IF n = 0 THEN {""}
    ELSE LET shorter == StringsUpTo(chars, n - 1)
         IN  shorter \cup {s \o c : s \in shorter, c \in chars}

OverrideWords ==
    { "count=42", "rate=3.14", "enabled=true", "enabled=TRUE", "enabled=False",
      "k=truee", "k=1e1", "k=1E-1", "k=-1.1e+1", "k=inf", "k=-Infinity", "k=nan",
      "k=0", "k=1.0", "k=10", "k=+1", "k=01", "k=1_1", "k=1__1", "k=1 1",
      "items=[\"a\",\"b\"]", "k=[1, [1]]", "k=[1,]", "k=[01]", "k=[1.]",
      "k=[true]", "k=[True]", "k=[1] x", "k= [1e1, null] ", "k=[NaN]",
      "config={\"k\":1}", "k={}", "k={ }", "k={\"a\": {\"b\": [1]}}", "k={a:1}",
      "k={\"a\":1,}", "k={\"a\":1, \"a\":11}", "k={\"a\"",
      "name=hello world", " key = a=b ", "invalid", "true", "[1]", "=true",
      " =[1]", "a b=1" }

OverrideInputs == StringsUpTo(OverrideChars, MaxOverrideLen) \cup OverrideWords

InitOverride ==
    /\ pc = "parse"
    /\ override \in OverrideInputs
    /\ parsed = NotCalled
    /\ IdleExcept({"override"})

ParseCliOverride ==
    /\ pc = "parse"
    /\ parsed' = parse_cli_override(override)
    /\ pc' = "parsed"
    /\ UNCHANGED override
    /\ Frame({"override"})

NextOverride == ParseCliOverride

SpecOverride == InitOverride /\ [][NextOverride]_vars

-----------------------------------------------------------------------------
(* C3, C4 *)

\* the text before the first "=" and the stripped text after it
KeyText(o) == Slice(o, 1, Find(o, "=") - 1)
ValueText(o) == strip(Slice(o, Find(o, "=") + 1, Len(o)))

\* the first rule that applies to the stripped value v, in the order JSON,
\* bool, int, float, str; a "[" or "{" value that is no JSON is kept as it is
FirstRule(v) ==
    IF StartsJSON(v) THEN (IF json_loads(v).ok THEN json_loads(v).val ELSE StrV(v))
    ELSE IF lower(v) \in {"true", "false"} THEN BoolV(lower(v) = "true")
    ELSE IF py_int(v).ok THEN py_int(v).val
    ELSE IF py_float(v).ok THEN py_float(v).val
    ELSE StrV(v)

\* C3: parse_cli_override coerces the stripped value by the first rule that
\* applies: JSON for a value beginning with "[" or "{" (the string itself when
\* it does not parse), else true/false in any case as a boolean, else an
\* integer, else a float, else the string.
C3_CoercionOrder ==
    (pc = "parsed" /\ parsed.raised = "") =>
        parsed.val.value = FirstRule(ValueText(override))

\* a value beginning with "[" or "{" that is no JSON came back as a string
C3_Witness ==
    /\ pc = "parsed"
    /\ parsed.raised = ""
    /\ StartsJSON(ValueText(override))
    /\ ~json_loads(ValueText(override)).ok
    /\ parsed.val.value = StrV(ValueText(override))
    /\ Len(ValueText(override)) > 1

\* C4 as stated: without "=" the call fails with TemplateError; with "=" it
\* returns a pair whose key is the text before the first "=".
C4_TotalWithEquals ==
    pc = "parsed" =>
        IF ~Contains(override, "=") THEN parsed.raised = "TemplateError"
        ELSE parsed.raised = "" /\ parsed.val.key = KeyText(override)

\* C4, amended: the call fails with TemplateError without "=" and when the
\* text before the first "=" is blank; otherwise it returns a pair whose key
\* is that text with the surrounding whitespace stripped.
C4_TotalWithKey ==
    pc = "parsed" =>
        IF ~Contains(override, "=") \/ strip(KeyText(override)) = ""
        THEN parsed.raised = "TemplateError"
        ELSE parsed.raised = "" /\ parsed.val.key = strip(KeyText(override))

\* an override with "=" and a blank key was refused
C4_Witness ==
    /\ pc = "parsed"
    /\ Contains(override, "=")
    /\ KeyText(override) # ""
    /\ strip(KeyText(override)) = ""
    /\ parsed.raised = "TemplateError"

-----------------------------------------------------------------------------
(* pk/render.py: validate_params.  Draft7Validator(schema).iter_errors is  *)
(* modelled for the keywords type, enum, properties and required; an error *)
(* is [path, message], path being error.absolute_path.                     *)

\* the order in which the keys of a dict are visited
KeyOrder ==
    <<"a", "b", "default", "default.yaml", "notes.txt", "output_format", "p", "p.yaml",
      "p.yml", "params_hash", "prompt_hash",
      "t1", "t2", "template", "timestamp", "version", "x", "y">>

KeysOf(m) == SelectSeq(KeyOrder, LAMBDA k : k \in DOMAIN m)

\* ", ".join(seq)
RECURSIVE JoinWith(_, _)
JoinWith(seq, sep) ==
    IF seq = <<>> THEN ""
    ELSE IF Len(seq) = 1 THEN seq[1]
    ELSE seq[1] \o sep \o JoinWith(Tail(seq), sep)

\* the characters of names, in the order of their code points
CodeOrder == " ()-.0123456789:ABCDEFGHIJKLMNOPQRSTUVWXYZ_abcdefghijklmnopqrstuvwxyz"

Ord(c) == MinOf({i \in 1..Len(CodeOrder) : At(CodeOrder, i) = c})

\* s < t of two str
RECURSIVE LexLess(_, _)
LexLess(s, t) ==
    IF t = "" THEN FALSE
    ELSE IF s = "" THEN TRUE
    ELSE IF At(s, 1) = At(t, 1) THEN LexLess(Slice(s, 2, Len(s)), Slice(t, 2, Len(t)))
    ELSE Ord(At(s, 1)) < Ord(At(t, 1))

Least(S) == CHOOSE s \in S : \A t \in S \ {s} : LexLess(s, t)

\* sorted(S) of a set of str
RECURSIVE Sorted(_)
Sorted(S) == IF S = {} THEN <<>> ELSE <<Least(S)>> \o Sorted(S \ {Least(S)})

\* repr(v) of a parameter value
RECURSIVE Repr(_)
ReprItems(m, keys) == [i \in 1..Len(keys) |-> "'" \o keys[i] \o "': " \o Repr(m[keys[i]])]

Repr(v) ==
    IF v.kind = "int" THEN ToString(v.val)
    ELSE IF v.kind = "str" THEN "'" \o v.val \o "'"
    ELSE IF v.kind = "bool" THEN (IF v.val THEN "True" ELSE "False")
    ELSE IF v.kind = "obj" THEN "{" \o JoinWith(ReprItems(v.val, KeysOf(v.val)), ", ") \o "}"
    ELSE IF v.kind = "list" THEN "[" \o JoinWith([i \in 1..Len(v.val) |-> Repr(v.val[i])], ", ") \o "]"
    ELSE "None"

\* TypeChecker.is_type of draft 7: a bool is no integer
is_type(v, t) ==
    \/ t = "integer" /\ v.kind = "int"
    \/ t = "number" /\ v.kind \in {"int", "float"}
    \/ t = "string" /\ v.kind = "str"
    \/ t = "boolean" /\ v.kind = "bool"
    \/ t = "object" /\ v.kind = "obj"
    \/ t = "array" /\ v.kind = "list"
    \/ t = "null" /\ v.kind = "null"

Error(path, message) == [path |-> path, message |-> message]

TypeErrors(v, sch, path) ==
    IF "type" \in DOMAIN sch /\ ~is_type(v, sch["type"])
    THEN <<Error(path, Repr(v) \o " is not of type '" \o sch["type"] \o "'")>>
    ELSE <<>>

EnumErrors(v, sch, path) ==
    IF "enum" \in DOMAIN sch /\ ~(\E i \in 1..Len(sch["enum"]) : sch["enum"][i] = v)
    THEN <<Error(path, Repr(v) \o " is not one of ["
                       \o JoinWith([i \in 1..Len(sch["enum"]) |-> Repr(sch["enum"][i])], ", ")
                       \o "]")>>
    ELSE <<>>

RECURSIVE RequiredErrors(_, _, _)
RequiredErrors(v, required, path) ==
    IF required = <<>> \/ v.kind # "obj" THEN <<>>
    ELSE (IF Head(required) \in DOMAIN v.val THEN <<>>
          ELSE <<Error(path, "'" \o Head(required) \o "' is a required property")>>)
         \o RequiredErrors(v, Tail(required), path)

RECURSIVE iter_errors(_, _, _), PropertiesErrors(_, _, _, _)

\* the errors of the properties named in keys
PropertiesErrors(v, properties, keys, path) ==
    IF keys = <<>> \/ v.kind # "obj" THEN <<>>
    ELSE (IF Head(keys) \in DOMAIN v.val
          THEN iter_errors(v.val[Head(keys)], properties[Head(keys)], Append(path, Head(keys)))
          ELSE <<>>)
         \o PropertiesErrors(v, properties, Tail(keys), path)

iter_errors(v, sch, path) ==
    TypeErrors(v, sch, path)
    \o EnumErrors(v, sch, path)
    \o (IF "properties" \in DOMAIN sch
        THEN PropertiesErrors(v, sch["properties"], KeysOf(sch["properties"]), path)
        ELSE <<>>)
    \o (IF "required" \in DOMAIN sch THEN RequiredErrors(v, sch["required"], path)
        ELSE <<>>)

\* line 324: the dotted path, or "root"
DottedPath(path) == IF path = <<>> THEN "root" ELSE JoinWith(path, ".")

\* line 325
ErrorMessage(e) == "  - " \o DottedPath(e.path) \o ": " \o e.message

\* lines 321-330
RaiseValidation(error_messages) ==
    [raised |-> "SchemaValidationError",
     message |-> "Parameter validation failed:\n" \o JoinWith(error_messages, "\n"),
     errors |-> error_messages]

\* a variant of ReportErrors that stops at the first error
ReportFirstError(errors) ==
    IF errors = <<>> THEN Silent
    ELSE RaiseValidation(<<ErrorMessage(errors[1])>>)

\* lines 321-330: errors is list(validator.iter_errors(params))
ReportErrors(errors) ==
    IF errors = <<>> THEN Silent
    ELSE RaiseValidation([i \in 1..Len(errors) |-> ErrorMessage(errors[i])])

validate_params(sch, params) == ReportErrors(iter_errors(ObjV(params), sch, <<>>))

-----------------------------------------------------------------------------
(* The inputs of the validate specification *)

ValidateKeys == {"a", "b"}

NestedSchema ==
    [type |-> "object", properties |-> [x |-> [type |-> "integer"]], required |-> <<"x">>]

ValidatePropSchemas ==
    { [type |-> "integer"],
      [type |-> "string", enum |-> <<StrV("s"), StrV("t")>>],
      [description |-> "any"],
      NestedSchema }

ValidateVals ==
    {IntV(1), StrV("s"), StrV("u"), BoolV(TRUE), ObjV(EmptyMap),
     ObjV([x \in {"x"} |-> IntV(1)]), ObjV([x \in {"x"} |-> StrV("s")])}

ValidateSchemas ==
    {[title |-> "t"]} \cup
    {[type |-> "object", properties |-> p, required |-> KeysOf([k \in r |-> 0])] :
        p \in Dicts(ValidateKeys, ValidatePropSchemas), r \in SUBSET ValidateKeys}

InitValidate ==
    /\ pc = "validate"
    /\ schema \in ValidateSchemas
    /\ merged \in Dicts(ValidateKeys, ValidateVals)
    /\ preset_params = None
    /\ file_params = None
    /\ cli_overrides = None
    /\ validation = NotValidated
    /\ IdleExcept({"merge", "validate"})

ValidateParams ==
    /\ pc = "validate"
    /\ validation' = validate_params(schema, merged)
    /\ pc' = "validated"
    /\ UNCHANGED mergeVars
    /\ Frame({"merge", "validate"})

NextValidate == ValidateParams

SpecValidate == InitValidate /\ [][NextValidate]_vars

-----------------------------------------------------------------------------
(* pk/render.py: render.  A template is the sequence of nodes Jinja2 parses *)
(* its text into; the environment is Environment(undefined=StrictUndefined).*)

Text(t) == [node |-> "text", name |-> "", text |-> t, body |-> <<>>, orelse |-> <<>>]
\* {{ name }}
Var(n) == [node |-> "var", name |-> n, text |-> "", body |-> <<>>, orelse |-> <<>>]
\* {{ name | default("t") }}
Default(n, t) == [node |-> "default", name |-> n, text |-> t, body |-> <<>>, orelse |-> <<>>]
\* {% if name %}body{% else %}orelse{% endif %}
If(n, body, orelse) == [node |-> "if", name |-> n, text |-> "", body |-> body, orelse |-> orelse]
\* {% if name is defined %}body{% endif %}
IfDefined(n, body) == [node |-> "ifdefined", name |-> n, text |-> "", body |-> body, orelse |-> <<>>]
\* {% for x in name %}body{% endfor %}
For(n, body) == [node |-> "for", name |-> n, text |-> "", body |-> body, orelse |-> <<>>]

LoopVar == "x"

\* the state of an evaluation: the text written so far, or the exception raised
Writing(out) == [raised |-> "", text |-> out]
UndefinedError(n) == [raised |-> "UndefinedError", text |-> "'" \o n \o "' is undefined"]
TypeError(v) ==
    [raised |-> "TypeError",
     text |-> "'" \o (IF v.kind = "null" THEN "NoneType" ELSE v.kind) \o "' object is not iterable"]

\* str(v), which {{ }} writes
Str(v) == IF v.kind = "str" THEN v.val ELSE Repr(v)

\* bool(v)
PyTruthy(v) ==
    IF v.kind = "str" THEN v.val # ""
    ELSE IF v.kind = "list" THEN v.val # <<>>
    ELSE IF v.kind = "bool" THEN v.val
    ELSE IF v.kind = "int" THEN v.val # 0
    ELSE IF v.kind = "obj" THEN DOMAIN v.val # {}
    ELSE FALSE

Iterable(v) == v.kind \in {"str", "list", "obj"}

\* list(iter(v))
Items(v) ==
    IF v.kind = "list" THEN v.val
    ELSE IF v.kind = "str" THEN [i \in 1..Len(v.val) |-> StrV(At(v.val, i))]
    ELSE [i \in 1..Len(KeysOf(v.val)) |-> StrV(KeysOf(v.val)[i])]

Bind(ctx, k, v) == [j \in DOMAIN ctx \cup {k} |-> IF j = k THEN v ELSE ctx[j]]

Emit(acc, t) == Writing(acc.text \o t)

\* a variant of OutputName with the default Undefined, which writes ""
OutputNameBlank(n, ctx, acc) ==
    IF n \in DOMAIN ctx THEN Emit(acc, Str(ctx[n])) ELSE Emit(acc, "")

\* {{ n }} under StrictUndefined
OutputName(n, ctx, acc) ==
    IF n \in DOMAIN ctx THEN Emit(acc, Str(ctx[n])) ELSE UndefinedError(n)

RECURSIVE RenderNodes(_, _, _), RenderNode(_, _, _), RenderLoop(_, _, _, _)

RenderLoop(items, body, ctx, acc) ==
    IF acc.raised # "" \/ items = <<>> THEN acc
    ELSE RenderLoop(Tail(items), body, ctx,
                    RenderNodes(body, Bind(ctx, LoopVar, Head(items)), acc))

RenderNode(n, ctx, acc) ==
    IF n.node = "text" THEN Emit(acc, n.text)
    ELSE IF n.node = "var" THEN OutputName(n.name, ctx, acc)
    ELSE IF n.node = "default"
         THEN (IF n.name \in DOMAIN ctx THEN Emit(acc, Str(ctx[n.name]))
               ELSE Emit(acc, n.text))
    ELSE IF n.node = "ifdefined"
         THEN (IF n.name \in DOMAIN ctx THEN RenderNodes(n.body, ctx, acc) ELSE acc)
    ELSE IF n.name \notin DOMAIN ctx THEN UndefinedError(n.name)
    ELSE IF n.node = "if"
         THEN (IF PyTruthy(ctx[n.name]) THEN RenderNodes(n.body, ctx, acc)
               ELSE RenderNodes(n.orelse, ctx, acc))
    ELSE IF Iterable(ctx[n.name]) THEN RenderLoop(Items(ctx[n.name]), n.body, ctx, acc)
    ELSE TypeError(ctx[n.name])

RenderNodes(nodes, ctx, acc) ==
    IF acc.raised # "" \/ nodes = <<>> THEN acc
    ELSE RenderNodes(Tail(nodes), ctx, RenderNode(Head(nodes), ctx, acc))

\* lines 381-388: the three except clauses
RenderResult(acc) ==
    IF acc.raised = "" THEN Returned(StrV(acc.text))
    ELSE IF acc.raised = "UndefinedError"
    THEN [raised |-> "RenderError", val |-> StrV("Undefined variable in template: " \o acc.text)]
    ELSE [raised |-> "RenderError", val |-> StrV("Render error: " \o acc.text)]

render(content, params) == RenderResult(RenderNodes(content, params, Writing("")))

-----------------------------------------------------------------------------
(* The inputs of the render specification *)

MaxNodes == 2

RenderNames == {"a", "b"}

RenderVals == {StrV("v"), StrV(""), ListV(<<>>), ListV(<<StrV("i")>>), BoolV(FALSE)}

Bodies == {<<Var("b")>>, <<Var(LoopVar)>>}

Nodes ==
    {Text("t"), Var("a"), Var("b"), Var(LoopVar), Default("b", "d"), IfDefined("b", <<Var("b")>>)}
    \cup {If(n, body, orelse) : n \in RenderNames, body \in Bodies, orelse \in {<<>>, <<Var("b")>>}}
    \cup {For(n, body) : n \in RenderNames, body \in Bodies}

Templates == UNION {[1..n -> Nodes] : n \in 1..MaxNodes}

InitRender ==
    /\ pc = "render"
    /\ template_content \in Templates
    /\ merged \in Dicts(RenderNames, RenderVals)
    /\ schema = [title |-> "t"]
    /\ preset_params = None
    /\ file_params = None
    /\ cli_overrides = None
    /\ rendered = NotCalled
    /\ IdleExcept({"merge", "render"})

Render ==
    /\ pc = "render"
    /\ rendered' = render(template_content, merged)
    /\ pc' = "rendered"
    /\ UNCHANGED <<mergeVars, template_content>>
    /\ Frame({"merge", "render"})

SpecRender == InitRender /\ [][Render]_vars

-----------------------------------------------------------------------------
(* pk/render.py: the template store.  A store is a function from the names  *)
(* of the directories in templates/ to their contents: template.md (parsed), *)
(* schema.json, the files of examples/ by file name, tests/render_golden.md. *)
(* A YAML file is held as the document yaml.safe_load reads from it.         *)

\* a file of the store that holds v, and one that is missing
Present(v) == [exists |-> TRUE, val |-> v]
NoTemplate == [exists |-> FALSE, val |-> <<>>]
NoGolden == [exists |-> FALSE, val |-> ""]

\* schema.json with a JSON text that parses to v, and one that does not parse
SchemaFile(v) == [exists |-> TRUE, json |-> TRUE, val |-> v]
SchemaMalformed == [exists |-> TRUE, json |-> FALSE, val |-> EmptyMap]
SchemaMissing == [exists |-> FALSE, json |-> FALSE, val |-> EmptyMap]

YamlDoc(v) == [yaml |-> TRUE, doc |-> v]
YamlMalformed == [yaml |-> FALSE, doc |-> NullV]

TemplateDir(template_md, schema_json, examples, golden) ==
    [template_md |-> template_md, schema_json |-> schema_json,
     examples |-> examples, golden |-> golden]

TemplatesDir == "templates"

\* lines 141-151 of load_schema, for a directory that exists
SchemaOf(st, name) ==
    IF ~st[name].schema_json.exists
    THEN Raise("TemplateNotFoundError",
               "Schema file not found: " \o TemplatesDir \o "/" \o name \o "/schema.json")
    ELSE IF ~st[name].schema_json.json
    THEN Raise("TemplateError",
               "Invalid JSON in schema " \o TemplatesDir \o "/" \o name \o "/schema.json")
    ELSE Returned(st[name].schema_json.val)

\* line 72
Description(sch) ==
    IF "description" \in DOMAIN sch THEN sch["description"]
    ELSE IF "title" \in DOMAIN sch THEN sch["title"] ELSE "No description"

\* lines 69-76: the loop of list_templates, which load_schema can leave
RECURSIVE ListTemplatesFrom(_, _, _)
ListTemplatesNext(st, names, acc, sch) ==
    IF sch.raised # "" THEN sch
    ELSE ListTemplatesFrom(st, Tail(names),
                           Append(acc, [name |-> Head(names), description |-> Description(sch.val)]))

ListTemplatesFrom(st, names, acc) ==
    IF names = <<>> THEN Returned(acc)
    ELSE IF st[Head(names)].template_md.exists
    THEN ListTemplatesNext(st, names, acc, SchemaOf(st, Head(names)))
    ELSE ListTemplatesFrom(st, Tail(names), acc)

list_templates(st) == ListTemplatesFrom(st, KeysOf(st), <<>>)

\* lines 93-98
TemplateNotFound(name, listed) ==
    IF listed.raised # "" THEN listed
    ELSE Raise("TemplateNotFoundError",
               "Template '" \o name \o "' not found. Available templates: "
               \o (IF listed.val = <<>> THEN "none"
                   ELSE JoinWith([i \in 1..Len(listed.val) |-> listed.val[i].name], ", ")))

get_template_dir(st, name) ==
    IF name \in DOMAIN st THEN Returned(name)
    ELSE TemplateNotFound(name, list_templates(st))

\* lines 117-123
TemplateFileOf(st, name, dir) ==
    IF dir.raised # "" THEN dir
    ELSE IF ~st[name].template_md.exists
    THEN Raise("TemplateNotFoundError",
               "Template file not found: " \o TemplatesDir \o "/" \o name \o "/template.md")
    ELSE Returned(st[name].template_md.val)

load_template(st, name) == TemplateFileOf(st, name, get_template_dir(st, name))

SchemaIn(st, name, dir) == IF dir.raised # "" THEN dir ELSE SchemaOf(st, name)

load_schema(st, name) == SchemaIn(st, name, get_template_dir(st, name))

\* Path.suffix and Path.stem of a file name
LastDot(fname) == MaxOf({0} \cup {i \in 1..Len(fname) : At(fname, i) = "."})
HasSuffix(fname) == 1 < LastDot(fname) /\ LastDot(fname) < Len(fname)
suffix(fname) == IF HasSuffix(fname) THEN Slice(fname, LastDot(fname), Len(fname)) ELSE ""
stem(fname) == IF HasSuffix(fname) THEN Slice(fname, 1, LastDot(fname) - 1) ELSE fname

\* lines 170-174: sorted(examples_dir.iterdir()), the YAML files' stems
PresetStems(examples) ==
    [i \in 1..Len(SelectSeq(Sorted(DOMAIN examples),
                            LAMBDA f : suffix(f) \in {".yaml", ".yml"})) |->
        stem(SelectSeq(Sorted(DOMAIN examples),
                       LAMBDA f : suffix(f) \in {".yaml", ".yml"})[i])]

PresetsIn(st, name, dir) ==
    IF dir.raised # "" THEN dir ELSE Returned(PresetStems(st[name].examples))

list_presets(st, name) == PresetsIn(st, name, get_template_dir(st, name))

\* lines 198-202: the file is there
ReadPreset(fname, file) ==
    IF ~file.yaml THEN Raise("TemplateError", "Invalid YAML in preset " \o fname)
    ELSE IF file.doc.kind = "obj" /\ DOMAIN file.doc.val # {} THEN Returned(file.doc.val)
    ELSE IF PyTruthy(file.doc) THEN Returned(file.doc)
    ELSE Returned(EmptyMap)

\* lines 204-209
PresetNotFound(name, preset_name, available) ==
    IF available.raised # "" THEN available
    ELSE Raise("PresetNotFoundError",
               "Preset '" \o preset_name \o "' not found for template '" \o name
               \o "'. Available presets: "
               \o (IF available.val = <<>> THEN "none" ELSE JoinWith(available.val, ", ")))

\* lines 192-209
PresetIn(st, name, preset_name, dir) ==
    IF dir.raised # "" THEN dir
    ELSE IF preset_name \o ".yaml" \in DOMAIN st[name].examples
    THEN ReadPreset(preset_name \o ".yaml", st[name].examples[preset_name \o ".yaml"])
    ELSE IF preset_name \o ".yml" \in DOMAIN st[name].examples
    THEN ReadPreset(preset_name \o ".yml", st[name].examples[preset_name \o ".yml"])
    ELSE PresetNotFound(name, preset_name, list_presets(st, name))

load_preset(st, name, preset_name) ==
    PresetIn(st, name, preset_name, get_template_dir(st, name))

-----------------------------------------------------------------------------
(* pk/render.py: compute_hash and emit_run_packet, on a file system that is *)
(* a function from paths to directories and files.                          *)

Dir == [type |-> "dir", content |-> ""]
File(content) == [type |-> "file", content |-> content]

Put(f, path, entry) == [q \in DOMAIN f \cup {path} |-> IF q = path THEN entry ELSE f[q]]

\* the file system and the exception raised so far, if any
IO(f) == [fs |-> f, raised |-> ""]
Fail(io, e) == [io EXCEPT !.raised = e]

\* Path.mkdir(parents=True, exist_ok=True); the parents exist in this model
mkdir(io, path) ==
    IF io.raised # "" THEN io
    ELSE IF path \notin DOMAIN io.fs THEN IO(Put(io.fs, path, Dir))
    ELSE IF io.fs[path].type = "dir" THEN io
    ELSE Fail(io, "FileExistsError")

\* Path.write_text(content, encoding="utf-8"), which truncates an existing file
write_text(io, path, content) ==
    IF io.raised # "" THEN io
    ELSE IF path \in DOMAIN io.fs /\ io.fs[path].type = "dir" THEN Fail(io, "IsADirectoryError")
    ELSE IO(Put(io.fs, path, File(content)))

\* json.dumps raises TypeError for a value json cannot encode
RECURSIVE Serializable(_)
Serializable(v) ==
    IF v.kind = "obj" THEN \A k \in DOMAIN v.val : Serializable(v.val[k])
    ELSE IF v.kind = "list" THEN \A i \in 1..Len(v.val) : Serializable(v.val[i])
    ELSE v.kind \in {"int", "str", "bool", "null"}

EscapeChar(c) ==
    IF c = "\"" THEN "\\\"" ELSE IF c = "\\" THEN "\\\\" ELSE IF c = "\n" THEN "\\n" ELSE c

RECURSIVE Escape(_)
Escape(t) == IF t = "" THEN "" ELSE EscapeChar(At(t, 1)) \o Escape(Tail(t))

RECURSIVE Spaces(_)
Spaces(n) == IF n = 0 THEN "" ELSE " " \o Spaces(n - 1)

\* what json.dumps puts between an opening bracket, the items and the closing
\* bracket at nesting depth level: indent is 2 or, for indent=None, 0
Newline(indent, level) == IF indent = 0 THEN "" ELSE "\n" \o Spaces(indent * level)
ItemSeparator(indent, level) == IF indent = 0 THEN ", " ELSE "," \o Newline(indent, level)

Bracketed(open, items, close, indent, level) ==
    IF items = <<>> THEN open \o close
    ELSE open \o Newline(indent, level + 1)
         \o JoinWith(items, ItemSeparator(indent, level + 1))
         \o Newline(indent, level) \o close

\* json.dumps(v, indent=indent, sort_keys=True) of a serializable v
RECURSIVE Dumps(_, _, _)
DumpsPairs(m, keys, indent, level) ==
    [i \in 1..Len(keys) |->
        "\"" \o Escape(keys[i]) \o "\": " \o Dumps(m[keys[i]], indent, level)]

Dumps(v, indent, level) ==
    IF v.kind = "int" THEN ToString(v.val)
    ELSE IF v.kind = "str" THEN "\"" \o Escape(v.val) \o "\""
    ELSE IF v.kind = "bool" THEN (IF v.val THEN "true" ELSE "false")
    ELSE IF v.kind = "null" THEN "null"
    ELSE IF v.kind = "list"
    THEN Bracketed("[", [i \in 1..Len(v.val) |-> Dumps(v.val[i], indent, level + 1)], "]",
                   indent, level)
    ELSE Bracketed("{", DumpsPairs(v.val, KeysOf(v.val), indent, level + 1), "}",
                   indent, level)

\* hashlib.sha256(text.encode("utf-8")).hexdigest(): the digest is not
\* computed; it is a text that differs whenever the hashed text differs
compute_hash(text) == "sha256(" \o text \o ")"

TicksPerSecond == 2

Pad2(n) == IF n < 10 THEN "0" \o ToString(n) ELSE ToString(n)

\* datetime.now(timezone.utc).strftime("%Y%m%d_%H%M%S") at tick t
strftime(t) == "20240101_0000" \o Pad2(t \div TicksPerSecond)

\* datetime.now(timezone.utc).isoformat() at tick t: the fraction of the
\* second is written unless it is zero
isoformat(t) ==
    "2024-01-01T00:00:" \o Pad2(t \div TicksPerSecond)
    \o (IF t % TicksPerSecond = 0 THEN ""
        ELSE "." \o ToString((t % TicksPerSecond) * (1000000 \div TicksPerSecond)))
    \o "+00:00"

template_version == "0.1.0"

\* a variant of Meta whose params_hash is the digest of the indented text
\* written to params.resolved.json
MetaOfArtifacts(name, text, params, t) ==
    [template |-> StrV(name),
     version |-> StrV(template_version),
     prompt_hash |-> StrV(compute_hash(text)),
     timestamp |-> StrV(isoformat(t)),
     params_hash |-> StrV(compute_hash(Dumps(ObjV(params), 2, 0)))]

\* lines 450-456
Meta(name, text, params, t) ==
    [template |-> StrV(name),
     version |-> StrV(template_version),
     prompt_hash |-> StrV(compute_hash(text)),
     timestamp |-> StrV(isoformat(t)),
     params_hash |-> StrV(compute_hash(Dumps(ObjV(params), 0, 0)))]

\* a variant of WritePrompt that writes the text without surrounding whitespace
WritePromptStripped(io, packet_dir, text) ==
    write_text(io, packet_dir \o "/prompt.md", strip(text))

\* lines 439-440
WritePrompt(io, packet_dir, text) == write_text(io, packet_dir \o "/prompt.md", text)

\* lines 443-447
WriteParams(io, packet_dir, params) ==
    IF io.raised # "" THEN io
    ELSE IF ~Serializable(ObjV(params)) THEN Fail(io, "TypeError")
    ELSE write_text(io, packet_dir \o "/params.resolved.json", Dumps(ObjV(params), 2, 0))

\* lines 457-461
WriteMeta(io, packet_dir, meta) ==
    write_text(io, packet_dir \o "/meta.json", Dumps(ObjV(meta), 2, 0))

\* lines 436-463 on the packet directory
EmitInto(io, packet_dir, name, text, params, t) ==
    [io |-> WriteMeta(WriteParams(WritePrompt(mkdir(io, packet_dir), packet_dir, text),
                                  packet_dir, params),
                      packet_dir, Meta(name, text, params, t)),
     packet_dir |-> packet_dir]

EmitResult(e) ==
    [fs |-> e.io.fs,
     result |-> IF e.io.raised = "" THEN Returned(StrV(e.packet_dir)) ELSE Raised(e.io.raised)]

\* emit_run_packet called at tick t, its second reading of the clock at tick u
emit_run_packet(f, run_dir, name, text, params, t, u) ==
    EmitResult(EmitInto(mkdir(IO(f), run_dir), run_dir \o "/" \o strftime(t) \o "_" \o name,
                        name, text, params, u))

-----------------------------------------------------------------------------
(* The run-packet specification: calls of emit_run_packet as time passes *)

MaxCalls == 2
MaxClock == 3

RunDir == "runs"

PacketNames == {"t1", "t2"}

PacketTexts == {"Hi v\n", " \"q\" "}

PacketParams ==
    { [k \in {"a"} |-> StrV("v")],
      [k \in {"a", "b"} |-> IF k = "a" THEN ObjV([x \in {"y", "x"} |-> IntV(1)])
                            ELSE ListV(<<StrV("i"), BoolV(TRUE)>>)],
      [k \in {"a"} |-> DateV(1)] }

InitPacket ==
    /\ pc = "idle"
    /\ fs \in {EmptyMap, [q \in {RunDir} |-> Dir], [q \in {RunDir} |-> File("")]}
    /\ clock = 0
    /\ template_name = ""
    /\ started = 0
    /\ calls = 0
    /\ emitted = NotCalled
    /\ merged = EmptyMap
    /\ rendered = NotCalled
    /\ template_content = <<>>
    /\ schema = [title |-> "t"]
    /\ preset_params = None
    /\ file_params = None
    /\ cli_overrides = None
    /\ IdleExcept({"merge", "render", "packet"})

\* time passes between calls
Tick ==
    /\ clock < MaxClock
    /\ clock' = clock + 1
    /\ UNCHANGED <<pc, fs, template_name, started, calls, emitted, mergeVars, renderVars>>
    /\ Frame({"merge", "render", "packet"})

\* one call; the clock may advance by a tick before meta.json is written
EmitRunPacket ==
    /\ calls < MaxCalls
    /\ \E name \in PacketNames, text \in PacketTexts, params \in PacketParams,
          u \in {clock, IF clock < MaxClock THEN clock + 1 ELSE clock} :
          /\ template_name' = name
          /\ rendered' = Returned(StrV(text))
          /\ merged' = params
          /\ started' = clock
          /\ clock' = u
          /\ fs' = emit_run_packet(fs, RunDir, name, text, params, clock, u).fs
          /\ emitted' = emit_run_packet(fs, RunDir, name, text, params, clock, u).result
    /\ calls' = calls + 1
    /\ pc' = "emitted"
    /\ UNCHANGED <<schema, preset_params, file_params, cli_overrides, template_content>>
    /\ Frame({"merge", "render", "packet"})

NextPacket == Tick \/ EmitRunPacket

SpecPacket == InitPacket /\ [][NextPacket]_vars

-----------------------------------------------------------------------------
(* pk/render.py: load_params_file.  yaml.safe_load is modelled on the YAML  *)
(* documents that are JSON texts, and on the empty document.                *)

safe_load(content) == IF strip(content) = "" THEN Conv(TRUE, NullV) ELSE json_loads(content)

\* lines 230-234
ParamsFromJSON(path, r) ==
    IF ~r.ok THEN Raise("TemplateError", "Invalid JSON in params file " \o path)
    ELSE Returned(r.val)

\* lines 237-242: result if result else {}
ParamsFromYAML(path, r) ==
    IF ~r.ok THEN Raise("TemplateError", "Invalid YAML in params file " \o path)
    ELSE IF PyTruthy(r.val) THEN Returned(r.val)
    ELSE Returned(ObjV(EmptyMap))

load_params_file(f, path) ==
    IF path \notin DOMAIN f THEN Raise("TemplateError", "Params file not found: " \o path)
    ELSE IF suffix(path) = ".json" THEN ParamsFromJSON(path, json_loads(f[path].content))
    ELSE ParamsFromYAML(path, safe_load(f[path].content))

-----------------------------------------------------------------------------
(* pk/cli.py: render_cmd, step by step *)

\* str(e) of a raised exception
MessageOf(r) == IF r.val.kind = "str" THEN r.val.val ELSE r.raised

\* click.echo(msg, err=True); sys.exit(code)
Die(msg, code) ==
    /\ stderr' = Append(stderr, msg)
    /\ exit_code' = code
    /\ pc' = "exited"

\* "Error: ..." for the exception class named first, prefix otherwise
ErrorLine(r, first, prefix) ==
    IF r.raised = first THEN "Error: " \o MessageOf(r) ELSE prefix \o MessageOf(r)

\* click.Path(exists=True) of --params, checked before render_cmd is entered
ParseArguments ==
    /\ pc = "cmd:start"
    /\ IF args.params_file # "" /\ args.params_file \notin DOMAIN fs
       THEN /\ Die("Error: Invalid value for '--params' / '-P': Path '" \o args.params_file
                   \o "' does not exist.", 2)
       ELSE /\ pc' = "cmd:load"
            /\ UNCHANGED <<stderr, exit_code>>
    /\ UNCHANGED <<store, args, stdout, mergeVars, validateVars, renderVars, packetVars>>
    /\ Frame({"merge", "validate", "render", "packet", "cmd"})

\* lines 189-198
LoadTemplateAndSchema ==
    /\ pc = "cmd:load"
    /\ IF load_template(store, args.template).raised # ""
       THEN /\ Die(ErrorLine(load_template(store, args.template), "TemplateNotFoundError",
                             "Error loading template: "), 1)
            /\ UNCHANGED <<template_content, schema>>
       ELSE IF load_schema(store, args.template).raised # ""
       THEN /\ Die(ErrorLine(load_schema(store, args.template), "TemplateNotFoundError",
                             "Error loading template: "), 1)
            /\ UNCHANGED <<template_content, schema>>
       ELSE /\ template_content' = load_template(store, args.template).val
            /\ schema' = load_schema(store, args.template).val
            /\ pc' = "cmd:preset"
            /\ UNCHANGED <<stderr, exit_code>>
    /\ UNCHANGED <<store, args, stdout, preset_params, file_params, cli_overrides, merged,
                   rendered, validateVars, packetVars>>
    /\ Frame({"merge", "validate", "render", "packet", "cmd"})

\* lines 200-210
LoadPreset ==
    /\ pc = "cmd:preset"
    /\ IF args.preset = ""
       THEN /\ preset_params' = None
            /\ pc' = "cmd:params"
            /\ UNCHANGED <<stderr, exit_code>>
       ELSE IF load_preset(store, args.template, args.preset).raised # ""
       THEN /\ Die(ErrorLine(load_preset(store, args.template, args.preset),
                             "PresetNotFoundError", "Error loading preset: "), 1)
            /\ UNCHANGED preset_params
       ELSE /\ preset_params' = Some(load_preset(store, args.template, args.preset).val)
            /\ pc' = "cmd:params"
            /\ UNCHANGED <<stderr, exit_code>>
    /\ UNCHANGED <<store, args, stdout, schema, file_params, cli_overrides, merged,
                   validateVars, renderVars, packetVars>>
    /\ Frame({"merge", "validate", "render", "packet", "cmd"})

\* lines 212-219
LoadParamsFile ==
    /\ pc = "cmd:params"
    /\ IF args.params_file = ""
       THEN /\ file_params' = None
            /\ pc' = "cmd:overrides"
            /\ UNCHANGED <<stderr, exit_code>>
       ELSE IF load_params_file(fs, args.params_file).raised # ""
       THEN /\ Die("Error loading params file: "
                   \o MessageOf(load_params_file(fs, args.params_file)), 1)
            /\ UNCHANGED file_params
       ELSE /\ file_params' = Some(load_params_file(fs, args.params_file).val.val)
            /\ pc' = "cmd:overrides"
            /\ UNCHANGED <<stderr, exit_code>>
    /\ UNCHANGED <<store, args, stdout, schema, preset_params, cli_overrides, merged,
                   validateVars, renderVars, packetVars>>
    /\ Frame({"merge", "validate", "render", "packet", "cmd"})

\* lines 222-229: the loop over --set, which the first bad override leaves
RECURSIVE ParseOverridesFrom(_, _)
ParseOverridesNext(overrides, acc, r) ==
    IF r.raised # "" THEN r
    ELSE ParseOverridesFrom(Tail(overrides), Put(acc, r.val.key, r.val.value))

ParseOverridesFrom(overrides, acc) ==
    IF overrides = <<>> THEN Returned(acc)
    ELSE ParseOverridesNext(overrides, acc, parse_cli_override(Head(overrides)))

\* a variant of WithFormat that keeps an output_format given by --set
WithFormatUnlessSet(overrides, output_format) ==
    IF output_format # "" /\ "output_format" \notin DOMAIN overrides
    THEN Put(overrides, "output_format", StrV(output_format))
    ELSE overrides

\* lines 231-233
WithFormat(overrides, output_format) ==
    IF output_format # "" THEN Put(overrides, "output_format", StrV(output_format))
    ELSE overrides

\* lines 221-233
ParseOverrides ==
    /\ pc = "cmd:overrides"
    /\ IF ParseOverridesFrom(args.overrides, EmptyMap).raised # ""
       THEN /\ Die("Error parsing override: "
                   \o MessageOf(ParseOverridesFrom(args.overrides, EmptyMap)), 1)
            /\ UNCHANGED cli_overrides
       ELSE /\ cli_overrides' = Some(WithFormat(ParseOverridesFrom(args.overrides, EmptyMap).val,
                                                args.output_format))
            /\ pc' = "cmd:merge"
            /\ UNCHANGED <<stderr, exit_code>>
    /\ UNCHANGED <<store, args, stdout, schema, preset_params, file_params, merged,
                   validateVars, renderVars, packetVars>>
    /\ Frame({"merge", "validate", "render", "packet", "cmd"})

\* lines 235-241
MergeParameters ==
    /\ pc = "cmd:merge"
    /\ merged' = merge_params(schema, preset_params, file_params, cli_overrides)
    /\ pc' = "cmd:validate"
    /\ UNCHANGED <<schema, preset_params, file_params, cli_overrides, cmdVars,
                   validateVars, renderVars, packetVars>>
    /\ Frame({"merge", "validate", "render", "packet", "cmd"})

\* a variant of Validate that goes on to render whatever validate_params did
ValidateAndGoOn ==
    /\ pc = "cmd:validate"
    /\ validation' = validate_params(schema, merged)
    /\ pc' = "cmd:render"
    /\ UNCHANGED <<cmdVars, mergeVars, renderVars, packetVars>>
    /\ Frame({"merge", "validate", "render", "packet", "cmd"})

\* lines 243-248
Validate ==
    /\ pc = "cmd:validate"
    /\ validation' = validate_params(schema, merged)
    /\ IF validate_params(schema, merged).raised # ""
       THEN Die("Error: " \o validate_params(schema, merged).message, 1)
       ELSE /\ pc' = "cmd:render"
            /\ UNCHANGED <<stderr, exit_code>>
    /\ UNCHANGED <<store, args, stdout, mergeVars, renderVars, packetVars>>
    /\ Frame({"merge", "validate", "render", "packet", "cmd"})

\* lines 250-255
RenderTemplate ==
    /\ pc = "cmd:render"
    /\ rendered' = render(template_content, merged)
    /\ IF render(template_content, merged).raised # ""
       THEN Die("Error rendering template: " \o MessageOf(render(template_content, merged)), 1)
       ELSE /\ pc' = "cmd:emit"
            /\ UNCHANGED <<stderr, exit_code>>
    /\ UNCHANGED <<store, args, stdout, template_content, mergeVars, validateVars, packetVars>>
    /\ Frame({"merge", "validate", "render", "packet", "cmd"})

\* lines 261-268: what is echoed after the call
PacketLine(result) ==
    IF result.raised = "" THEN "Run packet created: " \o result.val.val
    ELSE "Warning: Failed to create run packet: " \o MessageOf(result)

\* a variant of EmitPacket without the except clause: the failure ends the run
EmitPacketFatal ==
    /\ pc = "cmd:emit"
    /\ IF args.run_dir = ""
       THEN /\ pc' = "cmd:output"
            /\ UNCHANGED <<packetVars, stderr, exit_code>>
       ELSE \E u \in {clock, clock + 1} :
            /\ fs' = emit_run_packet(fs, args.run_dir, args.template, rendered.val.val,
                                     merged, clock, u).fs
            /\ emitted' = emit_run_packet(fs, args.run_dir, args.template, rendered.val.val,
                                          merged, clock, u).result
            /\ template_name' = args.template
            /\ started' = clock
            /\ clock' = u
            /\ calls' = calls + 1
            /\ IF emitted'.raised = ""
               THEN /\ stderr' = Append(stderr, PacketLine(emitted'))
                    /\ pc' = "cmd:output"
                    /\ UNCHANGED exit_code
               ELSE Die(MessageOf(emitted'), 1)
    /\ UNCHANGED <<store, args, stdout, mergeVars, validateVars, renderVars>>
    /\ Frame({"merge", "validate", "render", "packet", "cmd"})

\* lines 257-268; the clock may advance by a tick during the call
EmitPacket ==
    /\ pc = "cmd:emit"
    /\ IF args.run_dir = ""
       THEN UNCHANGED <<packetVars, stderr>>
       ELSE \E u \in {clock, clock + 1} :
            /\ fs' = emit_run_packet(fs, args.run_dir, args.template, rendered.val.val,
                                     merged, clock, u).fs
            /\ emitted' = emit_run_packet(fs, args.run_dir, args.template, rendered.val.val,
                                          merged, clock, u).result
            /\ template_name' = args.template
            /\ started' = clock
            /\ clock' = u
            /\ calls' = calls + 1
            /\ stderr' = Append(stderr, PacketLine(emitted'))
    /\ pc' = "cmd:output"
    /\ UNCHANGED <<store, args, stdout, exit_code, mergeVars, validateVars, renderVars>>
    /\ Frame({"merge", "validate", "render", "packet", "cmd"})

\* lines 270-275; an exception of write_text is not caught
Output ==
    /\ pc = "cmd:output"
    /\ IF args.output_file = ""
       THEN /\ stdout' = Append(stdout, rendered.val.val \o "\n")
            /\ exit_code' = 0
            /\ UNCHANGED <<fs, stderr>>
       ELSE IF write_text(IO(fs), args.output_file, rendered.val.val).raised # ""
       THEN /\ stderr' = Append(stderr, "Traceback (most recent call last):")
            /\ exit_code' = 1
            /\ UNCHANGED <<fs, stdout>>
       ELSE /\ fs' = write_text(IO(fs), args.output_file, rendered.val.val).fs
            /\ stderr' = Append(stderr, "Output written to: " \o args.output_file)
            /\ exit_code' = 0
            /\ UNCHANGED stdout
    /\ pc' = "exited"
    /\ UNCHANGED <<store, args, clock, template_name, started, calls, emitted,
                   mergeVars, validateVars, renderVars>>
    /\ Frame({"merge", "validate", "render", "packet", "cmd"})

-----------------------------------------------------------------------------
(* The inputs of the render-command specification *)

CmdTemplates ==
    { <<Text("Hi "), Var("a"), Text(" as "), Var("output_format"), Text("\n")>>,
      <<If("a", <<Var("b")>>, <<>>)>> }

CmdSchemas ==
    { [title |-> "t", type |-> "object",
       properties |-> [a |-> [type |-> "string", default |-> StrV("v")],
                       output_format |-> [type |-> "string",
                                          enum |-> <<StrV("markdown"), StrV("json")>>,
                                          default |-> StrV("markdown")]],
       required |-> <<"a">>],
      [type |-> "object", properties |-> [a |-> [type |-> "string"]], required |-> <<"a">>] }

CmdExamples ==
    { EmptyMap,
      [f \in {"p.yaml"} |-> YamlDoc(ObjV([k \in {"a"} |-> StrV("w")]))],
      [f \in {"p.yaml"} |-> YamlMalformed] }

CmdStores ==
    {EmptyMap} \cup
    {[n \in {"t1"} |-> TemplateDir(t, sch, ex, NoGolden)] :
        t \in {NoTemplate} \cup {Present(c) : c \in CmdTemplates},
        sch \in {SchemaMissing, SchemaMalformed} \cup {SchemaFile(c) : c \in CmdSchemas},
        ex \in CmdExamples}

CmdFiles ==
    { EmptyMap,
      [q \in {"params.json", "params.yaml"} |->
          IF q = "params.json" THEN File("{\"a\": \"f\"}") ELSE File("\n")],
      [q \in {"params.json", "params.yaml", RunDir} |->
          IF q = "params.json" THEN File("{\"a\"")
          ELSE IF q = "params.yaml" THEN File("{\"a\": ") ELSE File("")],
      [q \in {"params.yaml", RunDir} |->
          IF q = "params.yaml" THEN File("{\"b\": \"y\", \"a\": \"f\"}") ELSE File("")] }

CmdArgs ==
    [template : {"t1"},
     preset : {"", "p", "q"},
     params_file : {"", "params.json", "params.yaml"},
     overrides : {<<>>, <<"a=1">>, <<"b=[1]", "a=x">>, <<"bad">>},
     output_file : {"", "out.md"},
     output_format : {"", "json"},
     run_dir : {"", RunDir}]

InitCmd ==
    /\ pc = "cmd:start"
    /\ store \in CmdStores
    /\ args \in CmdArgs
    /\ fs \in CmdFiles
    /\ stdout = <<>>
    /\ stderr = <<>>
    /\ exit_code = 0
    /\ MergeIdle /\ ValidateIdle /\ RenderIdle
    /\ clock = 0 /\ template_name = "" /\ started = 0 /\ calls = 0 /\ emitted = NotCalled
    /\ IdleExcept({"merge", "validate", "render", "packet", "cmd"})

NextCmd ==
    \/ ParseArguments
    \/ LoadTemplateAndSchema
    \/ LoadPreset
    \/ LoadParamsFile
    \/ ParseOverrides
    \/ MergeParameters
    \/ Validate
    \/ RenderTemplate
    \/ EmitPacket
    \/ Output

SpecCmd == InitCmd /\ [][NextCmd]_vars

-----------------------------------------------------------------------------
(* What it is for params to violate a schema, stated on the schema itself *)

LocalViolations(v, sch, path) ==
    (IF "type" \in DOMAIN sch /\ ~is_type(v, sch["type"])
     THEN {<<path, "type", "">>} ELSE {})
    \cup (IF "enum" \in DOMAIN sch /\ v \notin {sch["enum"][i] : i \in 1..Len(sch["enum"])}
          THEN {<<path, "enum", "">>} ELSE {})
    \cup (IF "required" \in DOMAIN sch /\ v.kind = "obj"
          THEN {<<path, "required", sch["required"][i]>> :
                   i \in {j \in 1..Len(sch["required"]) : sch["required"][j] \notin DOMAIN v.val}}
          ELSE {})

SubInstances(v, sch, path) ==
    IF "properties" \in DOMAIN sch /\ v.kind = "obj"
    THEN {<<v.val[k], sch["properties"][k], Append(path, k)>> :
             k \in DOMAIN v.val \cap DOMAIN sch["properties"]}
    ELSE {}

RECURSIVE Violations(_, _, _)
Violations(v, sch, path) ==
    LocalViolations(v, sch, path)
    \cup UNION {Violations(s[1], s[2], s[3]) : s \in SubInstances(v, sch, path)}

PathText(path) == IF path = <<>> THEN "root" ELSE JoinWith(path, ".")

\* the entry of the errors list that reports the library's error e
EntryFor(e) == "  - " \o PathText(e.path) \o ": " \o e.message

LibraryErrors == iter_errors(ObjV(merged), schema, <<>>)

\* C5: validate_params returns silently when the params satisfy the schema,
\* and otherwise raises one SchemaValidationError whose errors list has
\* exactly one entry per violation (all of them, not only the first), each
\* entry being the dotted path of the violation ("root" for the empty path)
\* followed by the message of the violation.
C5_AllViolationsReported ==
    pc = "validated" =>
        /\ Violations(ObjV(merged), schema, <<>>) = {} => validation = Silent
        /\ Violations(ObjV(merged), schema, <<>>) # {} =>
            /\ validation.raised = "SchemaValidationError"
            /\ Len(validation.errors) = Cardinality(Violations(ObjV(merged), schema, <<>>))
            /\ Len(validation.errors) = Len(LibraryErrors)
            /\ \A i \in 1..Len(validation.errors) :
                   validation.errors[i] = EntryFor(LibraryErrors[i])
            /\ \A w \in Violations(ObjV(merged), schema, <<>>) :
                   \E i \in 1..Len(LibraryErrors) : LibraryErrors[i].path = w[1]

\* two violations at once: a missing required property at the root and a
\* wrong type at "a.x"
C5_Witness ==
    /\ pc = "validated"
    /\ validation.raised = "SchemaValidationError"
    /\ Len(validation.errors) = 2
    /\ \E i \in 1..2 : validation.errors[i] = "  - root: 'b' is a required property"
    /\ \E i \in 1..2 : validation.errors[i] = "  - a.x: 's' is not of type 'integer'"
    /\ "b" \notin DOMAIN merged

-----------------------------------------------------------------------------
(* Which names a template refers to, and which of them an evaluation uses *)

RECURSIVE FreeNames(_)
FreeNamesOf(n) ==
    IF n.node = "text" THEN {}
    ELSE IF n.node = "for" THEN {n.name} \cup (FreeNames(n.body) \ {LoopVar})
    ELSE {n.name} \cup FreeNames(n.body) \cup FreeNames(n.orelse)

\* the names a template refers to without binding them itself
FreeNames(nodes) == UNION {FreeNamesOf(nodes[i]) : i \in 1..Len(nodes)}

RECURSIVE Unresolved(_, _)
UnresolvedOf(n, ctx) ==
    IF n.node \in {"text", "default"} THEN {}
    ELSE IF n.node = "ifdefined"
         THEN (IF n.name \in DOMAIN ctx THEN Unresolved(n.body, ctx) ELSE {})
    ELSE IF n.name \notin DOMAIN ctx THEN {n.name}
    ELSE IF n.node = "var" THEN {}
    ELSE IF n.node = "if"
         THEN (IF PyTruthy(ctx[n.name]) THEN Unresolved(n.body, ctx)
               ELSE Unresolved(n.orelse, ctx))
    ELSE IF Iterable(ctx[n.name])
         THEN UNION {Unresolved(n.body, Bind(ctx, LoopVar, Items(ctx[n.name])[i])) :
                        i \in 1..Len(Items(ctx[n.name]))}
    ELSE {}

\* the names whose value an evaluation in ctx asks for and that ctx lacks,
\* were the evaluation to go through the whole template
Unresolved(nodes, ctx) == UNION {UnresolvedOf(nodes[i], ctx) : i \in 1..Len(nodes)}

\* C2 as stated: render fails with RenderError for every template that
\* refers to a name absent from params, wherever the reference occurs.
C2_FailsForEveryReference ==
    (pc = "rendered" /\ ~(FreeNames(template_content) \subseteq DOMAIN merged))
        => rendered.raised = "RenderError"

\* C2, amended: render fails with RenderError, writing nothing, whenever the
\* evaluation of the template asks for the value of a name that params lacks;
\* and it reports an undefined variable only then.
C2_FailsWhenEvaluated ==
    pc = "rendered" =>
        /\ Unresolved(template_content, merged) # {} => rendered.raised = "RenderError"
        /\ (/\ rendered.raised = "RenderError"
            /\ Slice(rendered.val.val, 1, 1) = "U")
               => Unresolved(template_content, merged) # {}

\* {% if a %}{{ b }}{% endif %} with a true and b absent has failed
C2_Witness ==
    /\ pc = "rendered"
    /\ template_content = <<If("a", <<Var("b")>>, <<>>)>>
    /\ "a" \in DOMAIN merged /\ PyTruthy(merged["a"])
    /\ "b" \notin DOMAIN merged
    /\ rendered = [raised |-> "RenderError",
                   val |-> StrV("Undefined variable in template: 'b' is undefined")]

-----------------------------------------------------------------------------
(* Run packets *)

FilesOf(f) == {q \in DOMAIN f : f[q].type = "file"}

\* C8 as stated: every call of emit_run_packet that returns has created a
\* directory that did not exist, and has left every file that existed before
\* the call as it was, also when two calls for one template fall in one second.
C8_NewDirectoryNoOverwrite ==
    [][(calls' = calls + 1 /\ emitted'.raised = "") =>
          /\ emitted'.val.val \notin DOMAIN fs
          /\ \A q \in FilesOf(fs) : q \in FilesOf(fs') /\ fs'[q] = fs[q]]_vars

PacketDir == RunDir \o "/" \o strftime(started) \o "_" \o template_name

\* C9: when emit_run_packet returns, the directory
\* <run_dir>/<timestamp>_<template name> exists, with the base directory, and
\* holds prompt.md equal to the rendered text, params.resolved.json equal to
\* the sorted-key JSON of the resolved parameters, and meta.json with exactly
\* the fields template, version, prompt_hash, timestamp and params_hash, the
\* hashes being the digests of the rendered text and of the sorted-key JSON
\* serialization of the parameters.
C9_PacketContents ==
    (pc = "emitted" /\ emitted.raised = "") =>
        /\ emitted.val = StrV(PacketDir)
        /\ {RunDir, PacketDir} \subseteq DOMAIN fs
        /\ fs[RunDir] = Dir /\ fs[PacketDir] = Dir
        /\ fs[PacketDir \o "/prompt.md"] = File(rendered.val.val)
        /\ fs[PacketDir \o "/params.resolved.json"] = File(Dumps(ObjV(merged), 2, 0))
        /\ \E u \in started..clock :
              fs[PacketDir \o "/meta.json"] =
                  File(Dumps(ObjV([template |-> StrV(template_name),
                                   version |-> StrV("0.1.0"),
                                   prompt_hash |-> StrV(compute_hash(rendered.val.val)),
                                   timestamp |-> StrV(isoformat(u)),
                                   params_hash |->
                                       StrV(compute_hash(Dumps(ObjV(merged), 0, 0)))]),
                             2, 0))

\* a first call on an empty file system has returned, for nested parameters
C9_Witness ==
    /\ pc = "emitted"
    /\ calls = 1
    /\ emitted.raised = ""
    /\ "b" \in DOMAIN merged
    /\ rendered.val.val = " \"q\" "
    /\ DOMAIN fs = {RunDir, PacketDir, PacketDir \o "/prompt.md",
                    PacketDir \o "/params.resolved.json", PacketDir \o "/meta.json"}

-----------------------------------------------------------------------------
(* The render command *)

\* one of the stages before the run packet has failed, or must fail
StageFailed ==
    \/ load_template(store, args.template).raised # ""
    \/ load_schema(store, args.template).raised # ""
    \/ args.preset # "" /\ load_preset(store, args.template, args.preset).raised # ""
    \/ args.params_file # "" /\ load_params_file(fs, args.params_file).raised # ""
    \/ \E i \in 1..Len(args.overrides) : parse_cli_override(args.overrides[i]).raised # ""
    \/ validation.raised = "SchemaValidationError"
    \/ rendered.raised = "RenderError"

\* nothing was rendered to the output stream or the --out file, and no packet
\* directory or file was made
NothingProduced ==
    /\ stdout = <<>>
    /\ emitted = NotCalled
    /\ DOMAIN fs \subseteq {"params.json", "params.yaml", RunDir}

IsErrorLine(line) == Slice(line, 1, 6) = "Error:" \/ Slice(line, 1, 6) = "Error "

\* C6: when template/schema loading, preset loading, params-file loading,
\* override parsing, validation or rendering fails, the render command exits
\* with a non-zero code after an error message on the error stream; it never
\* renders parameters that failed validation, emits no run packet and writes
\* no rendered output.
C6_FailureStopsTheRun ==
    /\ StageFailed =>
          /\ NothingProduced
          /\ pc \notin {"cmd:emit", "cmd:output"}
          /\ pc = "exited" =>
                /\ exit_code # 0
                /\ stderr # <<>> /\ IsErrorLine(stderr[Len(stderr)])
    /\ validation.raised = "SchemaValidationError" => rendered = NotCalled
    /\ rendered # NotCalled => validation = Silent

\* the run has ended on parameters that failed validation
C6_Witness ==
    /\ pc = "exited"
    /\ validation.raised = "SchemaValidationError"
    /\ Len(validation.errors) = 1
    /\ exit_code = 1
    /\ args.run_dir # "" /\ args.output_file # ""
    /\ stderr = <<"Error: " \o validation.message>>

\* the rendered text is where the command was told to write it
OutputWritten ==
    IF args.output_file = "" THEN stdout = <<rendered.val.val \o "\n">>
    ELSE /\ stdout = <<>>
         /\ args.output_file \in DOMAIN fs
         /\ fs[args.output_file] = File(rendered.val.val)

\* C10: with --run-dir, a failure of the run-packet emission is a warning
\* only: the rendered output is still written to stdout or to the --out file
\* and the command exits with code 0, as when the packet was written.
C10_EmissionFailureIsAWarning ==
    (pc = "exited" /\ emitted # NotCalled) =>
        /\ exit_code = 0
        /\ OutputWritten
        /\ emitted.raised # "" =>
              \E i \in 1..Len(stderr) : Slice(stderr[i], 1, 8) = "Warning:"

\* the emission failed on a run directory that is a file; the output went to
\* the --out file
C10_Witness ==
    /\ pc = "exited"
    /\ emitted.raised = "FileExistsError"
    /\ args.output_file = "out.md"
    /\ fs["out.md"] = File("Hi f as json\n")
    /\ exit_code = 0

-----------------------------------------------------------------------------
(* pk/doctor.py: the checks.  Each returns ValidationResults, or raises. *)

ValidationResult(template, check, passed, message, details) ==
    [template |-> template, check |-> check, passed |-> passed,
     message |-> message, details |-> details]

SimpleTypes == {"array", "boolean", "integer", "null", "number", "object", "string"}

\* Draft7Validator.check_schema, for the keywords of this model
RECURSIVE check_schema(_)
check_schema(sch) ==
    /\ "type" \in DOMAIN sch => sch["type"] \in SimpleTypes
    /\ "properties" \in DOMAIN sch =>
          \A k \in DOMAIN sch["properties"] : check_schema(sch["properties"][k])

\* lines 116-150, the directory being there
SchemaJsonResult(name, file) ==
    IF ~file.exists
    THEN ValidationResult(name, "schema_json", FALSE, "schema.json not found", <<>>)
    ELSE IF ~file.json
    THEN ValidationResult(name, "schema_json", FALSE, "Invalid JSON: ", <<>>)
    ELSE IF ~check_schema(file.val)
    THEN ValidationResult(name, "schema_json", FALSE, "Invalid JSON Schema: ", <<>>)
    ELSE ValidationResult(name, "schema_json", TRUE, "Valid JSON Schema", <<>>)

SchemaJsonIn(st, name, dir) ==
    IF dir.raised # "" THEN dir ELSE Returned(SchemaJsonResult(name, st[name].schema_json))

validate_schema_json(st, name) == SchemaJsonIn(st, name, get_template_dir(st, name))

\* validate_params(schema, merged) of lines 180, 218 and 239, as the try block
\* sees it
CheckParams(sch, params) ==
    IF validate_params(sch, params).raised = "" THEN Returned(params)
    ELSE Raise("SchemaValidationError", validate_params(sch, params).message)

\* what load_preset returned is a dict (any other document is a tagged value)
IsDict(v) == ~({"kind", "val"} \subseteq DOMAIN v)

\* merged.update(v) of line 294 for a v that is no dict: a str has items of
\* length 1, where pairs are required; a list has to hold pairs, and the
\* lists of the model hold none; a number is not iterable
UpdateRaises(v) ==
    IF v.kind = "str"
    THEN Raise("ValueError",
               "dictionary update sequence element #0 has length 1; 2 is required")
    ELSE IF v.kind = "list"
    THEN Raise("TypeError",
               "cannot convert dictionary update sequence element #0 to a sequence")
    ELSE Raise("TypeError", "object is not iterable")

\* an exception that `except TemplateError` does not take
Escaped(r) == r.raised \notin TemplateErrors \cup {""}

\* the first of the outcomes that escaped
FirstEscaped(checks) == checks[MinOf({i \in 1..Len(checks) : Escaped(checks[i])})]

\* lines 178-180: load_preset, merge_params, validate_params
MergedWith(sch, preset) ==
    IF preset.raised # "" THEN preset
    ELSE IF ~IsDict(preset.val) THEN UpdateRaises(preset.val)
    ELSE CheckParams(sch, merge_params(sch, Some(preset.val), None, None))

\* lines 181-193
PresetResult(name, preset_name, checked) ==
    IF checked.raised = ""
    THEN ValidationResult(name, "preset:" \o preset_name, TRUE, "Valid", <<>>)
    ELSE ValidationResult(name, "preset:" \o preset_name, FALSE, MessageOf(checked), <<>>)

\* lines 157-195, the schema loaded or not
PresetsResults(st, name, sch, presets) ==
    IF sch.raised # ""
    THEN <<ValidationResult(name, "presets", FALSE,
                            "Could not load schema: " \o MessageOf(sch), <<>>)>>
    ELSE IF presets.val = <<>>
    THEN <<ValidationResult(name, "presets", TRUE, "No presets to validate", <<>>)>>
    ELSE [i \in 1..Len(presets.val) |->
             PresetResult(name, presets.val[i],
                          MergedWith(sch.val, load_preset(st, name, presets.val[i])))]

\* the try blocks of lines 177-180, preset by preset
PresetChecks(st, name, sch, presets) ==
    [i \in 1..Len(presets) |-> MergedWith(sch, load_preset(st, name, presets[i]))]

\* lines 157-195; an exception that is no TemplateError ends the function
PresetsChecked(st, name, sch, presets) ==
    IF sch.raised = "" /\ \E i \in 1..Len(presets.val) :
                             Escaped(PresetChecks(st, name, sch.val, presets.val)[i])
    THEN FirstEscaped(PresetChecks(st, name, sch.val, presets.val))
    ELSE Returned(PresetsResults(st, name, sch, presets))

validate_presets(st, name) ==
    PresetsChecked(st, name, load_schema(st, name), list_presets(st, name))

\* lines 218-219 and 239-240: validate_params, then render
Rendering(template_text, checked) ==
    IF checked.raised # "" THEN checked ELSE render(template_text, checked.val)

\* a variant of RenderCheckResult for a render check that does not validate
\* the parameters
RenderCheckResultUnvalidated(name, check, passed_message, r) ==
    IF r.raised \in {"", "SchemaValidationError"}
    THEN ValidationResult(name, check, TRUE, passed_message, <<>>)
    ELSE ValidationResult(name, check, FALSE, MessageOf(r), <<>>)

\* lines 220-232 and 241-253
RenderCheckResult(name, check, passed_message, r) ==
    IF r.raised = "" THEN ValidationResult(name, check, TRUE, passed_message, <<>>)
    ELSE ValidationResult(name, check, FALSE, MessageOf(r), <<>>)

\* lines 202-255, the template and the schema loaded or not
RendersResults(st, name, template_text, sch, presets) ==
    IF template_text.raised # ""
    THEN <<ValidationResult(name, "render", FALSE,
                            "Could not load template/schema: " \o MessageOf(template_text),
                            <<>>)>>
    ELSE IF sch.raised # ""
    THEN <<ValidationResult(name, "render", FALSE,
                            "Could not load template/schema: " \o MessageOf(sch), <<>>)>>
    ELSE IF presets.val = <<>>
    THEN <<RenderCheckResult(name, "render:defaults", "Renders with defaults only",
               Rendering(template_text.val,
                         CheckParams(sch.val, merge_params(sch.val, None, None, None))))>>
    ELSE [i \in 1..Len(presets.val) |->
             RenderCheckResult(name, "render:" \o presets.val[i], "Renders successfully",
                 Rendering(template_text.val,
                           MergedWith(sch.val, load_preset(st, name, presets.val[i]))))]

\* lines 202-255; an exception that is no TemplateError ends the function
RendersChecked(st, name, template_text, sch, presets) ==
    IF /\ template_text.raised = "" /\ sch.raised = ""
       /\ \E i \in 1..Len(presets.val) :
              Escaped(PresetChecks(st, name, sch.val, presets.val)[i])
    THEN FirstEscaped(PresetChecks(st, name, sch.val, presets.val))
    ELSE Returned(RendersResults(st, name, template_text, sch, presets))

validate_template_renders(st, name) ==
    RendersChecked(st, name, load_template(st, name), load_schema(st, name),
                   list_presets(st, name))

\* get_template_variables: meta.find_undeclared_variables of the parsed text
get_template_variables(template_text) == FreeNames(template_text)

get_schema_variables(sch) ==
    IF "properties" \in DOMAIN sch THEN DOMAIN sch["properties"] ELSE {}

jinja_builtins == {"loop", "self", "range", "dict", "lipsum", "cycler", "joiner"}

ReprNames(S) == Repr(ListV([i \in 1..Len(Sorted(S)) |-> StrV(Sorted(S)[i])]))

\* a variant of CoverageResult in which an unused property fails the check
CoverageResultStrict(name, undeclared, unused) ==
    IF undeclared # {} \/ unused # {}
    THEN ValidationResult(name, "variable_coverage", FALSE,
             "Undeclared variables in template: " \o JoinWith(Sorted(undeclared), ", "),
             <<"Add these to schema.json or fix typos: " \o ReprNames(undeclared)>>)
    ELSE ValidationResult(name, "variable_coverage", TRUE,
             "All template variables declared in schema", <<>>)

\* lines 287-318
CoverageResult(name, undeclared, unused) ==
    IF undeclared # {}
    THEN ValidationResult(name, "variable_coverage", FALSE,
             "Undeclared variables in template: " \o JoinWith(Sorted(undeclared), ", "),
             <<"Add these to schema.json or fix typos: " \o ReprNames(undeclared)>>)
    ELSE ValidationResult(name, "variable_coverage", TRUE,
             "All template variables declared in schema",
             IF unused # {}
             THEN <<"Schema variables not used in template: " \o ReprNames(unused)>>
             ELSE <<>>)

\* lines 267-318, the template and the schema loaded or not
CoverageOf(name, template_text, sch) ==
    IF template_text.raised # ""
    THEN ValidationResult(name, "variable_coverage", FALSE,
             "Could not load template/schema: " \o MessageOf(template_text), <<>>)
    ELSE IF sch.raised # ""
    THEN ValidationResult(name, "variable_coverage", FALSE,
             "Could not load template/schema: " \o MessageOf(sch), <<>>)
    ELSE CoverageResult(name,
             (get_template_variables(template_text.val) \ get_schema_variables(sch.val))
                 \ jinja_builtins,
             get_schema_variables(sch.val) \ get_template_variables(template_text.val))

validate_variable_coverage(st, name) ==
    Returned(CoverageOf(name, load_template(st, name), load_schema(st, name)))

\* a variant of UnixLines that leaves a CR without LF as it is
RECURSIVE UnixLinesOfCRLF(_)
UnixLinesOfCRLF(t) ==
    IF t = "" THEN ""
    ELSE IF At(t, 1) = "\r" /\ At(t, 2) = "\n" THEN "\n" \o UnixLinesOfCRLF(Slice(t, 3, Len(t)))
    ELSE At(t, 1) \o UnixLinesOfCRLF(Tail(t))

\* text.replace("\r\n", "\n").replace("\r", "\n")
RECURSIVE UnixLines(_)
UnixLines(t) ==
    IF Find(t, "\r") = 0 THEN t
    ELSE Slice(t, 1, Find(t, "\r") - 1) \o "\n"
         \o UnixLines(Slice(t, Find(t, "\r")
                                  + (IF At(t, Find(t, "\r") + 1) = "\n" THEN 2 ELSE 1),
                             Len(t)))

\* t.split("\n")
RECURSIVE SplitLines(_)
SplitLines(t) ==
    IF Find(t, "\n") = 0 THEN <<t>>
    ELSE <<Slice(t, 1, Find(t, "\n") - 1)>> \o SplitLines(Slice(t, Find(t, "\n") + 1, Len(t)))

\* line.rstrip()
rstrip(line) ==
    Slice(line, 1, MaxOf({0} \cup {i \in 1..Len(line) : At(line, i) \notin Whitespace}))

\* a variant of PopBlankLines that removes one blank line only
PopBlankLine(lines) ==
    IF lines # <<>> /\ lines[Len(lines)] = ""
    THEN SubSeq(lines, 1, Len(lines) - 1)
    ELSE lines

\* while lines and not lines[-1]: lines.pop()
RECURSIVE PopBlankLines(_)
PopBlankLines(lines) ==
    IF lines # <<>> /\ lines[Len(lines)] = ""
    THEN PopBlankLines(SubSeq(lines, 1, Len(lines) - 1))
    ELSE lines

normalize_text(t) ==
    JoinWith(PopBlankLines([i \in 1..Len(SplitLines(UnixLines(t))) |->
                               rstrip(SplitLines(UnixLines(t))[i])]), "\n")

\* a variant of Shown that shows the whole line
ShownWhole(line) == line

\* e[:80] and the ellipsis
Shown(line) == Slice(line, 1, 80) \o (IF Len(line) > 80 THEN "..." ELSE "")

\* lines 393-402: the first line that differs, else the line counts
GoldenDetails(rendered_lines, expected_lines) ==
    IF \E i \in 1..Len(rendered_lines) :
           i <= Len(expected_lines) /\ rendered_lines[i] # expected_lines[i]
    THEN <<"First difference at line "
               \o ToString(MinOf({i \in 1..Len(rendered_lines) :
                      i <= Len(expected_lines) /\ rendered_lines[i] # expected_lines[i]}))
               \o ":",
           "  Expected: "
               \o Shown(expected_lines[MinOf({i \in 1..Len(rendered_lines) :
                      i <= Len(expected_lines) /\ rendered_lines[i] # expected_lines[i]})]),
           "  Got:      "
               \o Shown(rendered_lines[MinOf({i \in 1..Len(rendered_lines) :
                      i <= Len(expected_lines) /\ rendered_lines[i] # expected_lines[i]})])>>
    ELSE IF Len(rendered_lines) # Len(expected_lines)
    THEN <<"Line count mismatch: expected " \o ToString(Len(expected_lines))
               \o ", got " \o ToString(Len(rendered_lines))>>
    ELSE <<>>

\* lines 375-410
GoldenCompared(name, rendered_norm, expected_norm) ==
    IF rendered_norm = expected_norm
    THEN ValidationResult(name, "golden_test", TRUE, "Golden test passed", <<>>)
    ELSE ValidationResult(name, "golden_test", FALSE,
             "Golden test failed - output doesn't match expected",
             GoldenDetails(SplitLines(rendered_norm), SplitLines(expected_norm)))

\* lines 356-363: the default preset if there is one
GoldenParams(st, name, sch) ==
    IF \E i \in 1..Len(list_presets(st, name).val) : list_presets(st, name).val[i] = "default"
    THEN MergedWith(sch, load_preset(st, name, "default"))
    ELSE CheckParams(sch, merge_params(sch, None, None, None))

\* lines 351-364, the template and the schema loaded or not
GoldenRendered(st, name, template_text, sch) ==
    IF template_text.raised # "" THEN template_text
    ELSE IF sch.raised # "" THEN sch
    ELSE Rendering(template_text.val, GoldenParams(st, name, sch.val))

\* lines 366-410
GoldenOf(name, r, golden) ==
    IF r.raised # ""
    THEN ValidationResult(name, "golden_test", FALSE, "Render failed: " \o MessageOf(r), <<>>)
    ELSE GoldenCompared(name, normalize_text(r.val.val), normalize_text(golden.val))

\* lines 351-410; an exception that is no TemplateError ends the function
GoldenChecked(name, r, golden) ==
    IF Escaped(r) THEN r ELSE Returned(GoldenOf(name, r, golden))

\* lines 338-410
GoldenIn(st, name, dir) ==
    IF dir.raised # "" THEN dir
    ELSE IF ~st[name].golden.exists
    THEN Returned(ValidationResult(name, "golden_test", FALSE,
             "Golden file not found: " \o TemplatesDir \o "/" \o name
                 \o "/tests/render_golden.md",
             <<"Create tests/render_golden.md with expected output">>))
    ELSE GoldenChecked(name,
             GoldenRendered(st, name, load_template(st, name), load_schema(st, name)),
             st[name].golden)

validate_golden_test(st, name) == GoldenIn(st, name, get_template_dir(st, name))

\* lines 413-432; only the first and the last check look for the directory
\* outside a try block
TemplateResults(schema_json, presets, coverage, renders, golden) ==
    IF schema_json.raised # "" THEN schema_json
    ELSE IF presets.raised # "" THEN presets
    ELSE IF coverage.raised # "" THEN coverage
    ELSE IF renders.raised # "" THEN renders
    ELSE IF golden.raised # "" THEN golden
    ELSE Returned(<<schema_json.val>> \o presets.val \o <<coverage.val>> \o renders.val
                  \o <<golden.val>>)

validate_template(st, name) ==
    TemplateResults(validate_schema_json(st, name), validate_presets(st, name),
                    validate_variable_coverage(st, name),
                    validate_template_renders(st, name), validate_golden_test(st, name))

\* DoctorReport
DoctorReport(results) == [results |-> results]
add(r, result) == DoctorReport(Append(r.results, result))
\* a variant of passed that asks for one passing result only
passedAny(r) == \E i \in 1..Len(r.results) : r.results[i].passed

passed(r) == \A i \in 1..Len(r.results) : r.results[i].passed

failed_count(r) == Cardinality({i \in 1..Len(r.results) : ~r.results[i].passed})
passed_count(r) == Cardinality({i \in 1..Len(r.results) : r.results[i].passed})

\* lines 451-456: the loop of validate_all_templates
RECURSIVE ValidateFrom(_, _, _)
ValidateNext(st, templates, r, results) ==
    IF results.raised # "" THEN results
    ELSE ValidateFrom(st, Tail(templates), DoctorReport(r.results \o results.val))

ValidateFrom(st, templates, r) ==
    IF templates = <<>> THEN Returned(r)
    ELSE ValidateNext(st, templates, r, validate_template(st, Head(templates).name))

\* a variant of ValidateListed without the result for a store of no template
ValidateListedLoopOnly(st, templates) ==
    IF templates.raised # "" THEN templates
    ELSE ValidateFrom(st, templates.val, DoctorReport(<<>>))

\* lines 439-456, list_templates having returned or raised
ValidateListed(st, templates) ==
    IF templates.raised # "" THEN templates
    ELSE IF templates.val = <<>>
    THEN Returned(add(DoctorReport(<<>>),
                      ValidationResult("(none)", "templates_exist", FALSE, "No templates found",
                                       <<"Expected templates in: " \o TemplatesDir>>)))
    ELSE ValidateFrom(st, templates.val, DoctorReport(<<>>))

validate_all_templates(st) == ValidateListed(st, list_templates(st))

-----------------------------------------------------------------------------
(* The doctor specification: one run of the doctor on a store *)

DoctorNames == {"t1", "t2"}

DoctorTemplates ==
    { <<Text("Hi "), Var("a"), Text("\n")>>,
      <<Var("a"), Text(" \r\n"), If("a", <<Var("b")>>, <<>>)>> }

DoctorSchema ==
    [title |-> "t", type |-> "object",
     properties |-> [a |-> [type |-> "string", default |-> StrV("v")]],
     required |-> <<"a">>]

DoctorExamples ==
    { EmptyMap,
      [f \in {"default.yaml"} |-> YamlDoc(ObjV([k \in {"a"} |-> StrV("w")]))],
      [f \in {"p.yaml", "notes.txt"} |->
          IF f = "p.yaml" THEN YamlDoc(ObjV([k \in {"a"} |-> IntV(1)])) ELSE YamlMalformed],
      [f \in {"p.yml"} |-> YamlMalformed],
      [f \in {"default.yaml"} |-> YamlDoc(ListV(<<IntV(1)>>))] }

DoctorGoldens == {NoGolden, Present("Hi v\n\n"), Present("Hi w  \r\nbye")}

DoctorDirs ==
    {TemplateDir(t, sch, ex, g) :
        t \in {NoTemplate} \cup {Present(c) : c \in DoctorTemplates},
        sch \in {SchemaMissing, SchemaMalformed, SchemaFile(DoctorSchema)},
        ex \in DoctorExamples,
        g \in DoctorGoldens}

DoctorStores == UNION {[D -> DoctorDirs] : D \in SUBSET DoctorNames}

InitDoctor ==
    /\ pc = "doctor"
    /\ store \in DoctorStores
    /\ args = NoArgs
    /\ stdout = <<>>
    /\ stderr = <<>>
    /\ exit_code = 0
    /\ report = NotCalled
    /\ added = <<>>
    /\ PacketIdle
    /\ IdleExcept({"cmd", "doctor", "packet"})

\* a variant of doctor_run that leaves a directory for its run behind
doctor_run_recorded(st, f, name) ==
    [report |-> IF name = "" THEN validate_all_templates(st) ELSE validate_template(st, name),
     store |-> st,
     fs |-> Put(f, RunDir, Dir)]

\* a run of the doctor: what it returns, and the template store and the other
\* files as they are after it.  The checks read (exists, iterdir, read_text)
\* and render in memory; none of them writes, and emit_run_packet is not
\* called.
doctor_run(st, f, name) ==
    [report |-> IF name = "" THEN validate_all_templates(st) ELSE validate_template(st, name),
     store |-> st,
     fs |-> f]

\* validate_all_templates()
ValidateAllTemplates ==
    /\ pc = "doctor"
    /\ report' = doctor_run(store, fs, "").report
    /\ store' = doctor_run(store, fs, "").store
    /\ fs' = doctor_run(store, fs, "").fs
    /\ pc' = "doctor:all"
    /\ UNCHANGED <<args, stdout, stderr, exit_code, added>>
    /\ UNCHANGED <<clock, template_name, started, calls, emitted>>
    /\ Frame({"cmd", "doctor", "packet"})

\* validate_template(name)
ValidateTemplate ==
    /\ pc = "doctor"
    /\ \E name \in DoctorNames :
          /\ args' = [args EXCEPT !.template = name]
          /\ report' = doctor_run(store, fs, name).report
          /\ store' = doctor_run(store, fs, name).store
          /\ fs' = doctor_run(store, fs, name).fs
    /\ pc' = "doctor:one"
    /\ UNCHANGED <<stdout, stderr, exit_code, added>>
    /\ UNCHANGED <<clock, template_name, started, calls, emitted>>
    /\ Frame({"cmd", "doctor", "packet"})

NextDoctor == ValidateAllTemplates \/ ValidateTemplate

SpecDoctor == InitDoctor /\ [][NextDoctor]_vars

-----------------------------------------------------------------------------
(* The doctor *)

\* C7 as stated: the doctor never lets an exception escape; for every state
\* of the store validate_all_templates returns a report and validate_template
\* returns results.
C7_DoctorNeverRaises ==
    pc \in {"doctor:all", "doctor:one"} => report.raised = ""

-----------------------------------------------------------------------------
(* The report specification: a DoctorReport built by calls of add *)

MaxResults == 3

ReportResults ==
    {ValidationResult(t, c, p, "m", <<>>) :
        t \in {"t1", "t2"}, c \in {"schema_json", "golden_test"}, p \in BOOLEAN}

InitReport ==
    /\ pc = "report"
    /\ report = DoctorReport(<<>>)
    /\ added = <<>>
    /\ IdleExcept({"doctor"})

\* report.add(result)
Add ==
    /\ pc = "report"
    /\ Len(added) < MaxResults
    /\ \E result \in ReportResults :
          /\ report' = add(report, result)
          /\ added' = Append(added, result)
    /\ UNCHANGED pc
    /\ Frame({"doctor"})

NextReport == Add

SpecReport == InitReport /\ [][NextReport]_vars

\* C11: the report passes exactly when every result added to it has passed
\* (so an empty report passes), and the passed and failed counts add up to
\* the number of results added.
C11_ReportAggregates ==
    pc = "report" =>
        /\ passed(report) = (\A i \in 1..Len(added) : added[i].passed)
        /\ passed_count(report) + failed_count(report) = Len(added)

C11_Witness ==
    /\ pc = "report"
    /\ Len(added) = 3
    /\ added[1].passed /\ ~added[2].passed /\ added[3].passed
    /\ ~passed(report)
    /\ passed_count(report) = 2 /\ failed_count(report) = 1

-----------------------------------------------------------------------------
(* pk/doctor.py: DoctorReport.format_report; pk/cli.py: doctor_cmd *)

\* c * n
RECURSIVE Times(_, _)
Times(c, n) == IF n = 0 THEN "" ELSE c \o Times(c, n - 1)

\* the status sign of a result: CHECK MARK (U+2713) or BALLOT X (U+2717),
\* written here by their code points
StatusSign(ok) == IF ok THEN "U+2713" ELSE "U+2717"

\* lines 90-93
ResultLines(result) ==
    <<"  " \o StatusSign(result.passed) \o " " \o result.check \o ": " \o result.message>>
    \o [i \in 1..Len(result.details) |-> "      " \o result.details[i]]

RECURSIVE LinesOfResults(_)
LinesOfResults(results) ==
    IF results = <<>> THEN <<>>
    ELSE ResultLines(Head(results)) \o LinesOfResults(Tail(results))

\* lines 85-95, for one template of by_template
TemplateLines(results, t) ==
    <<"Template: " \o t, Times("-", 40)>>
    \o LinesOfResults(SelectSeq(results, LAMBDA result : result.template = t))
    \o <<"">>

\* lines 85-95, for the templates of sorted(by_template.items())
RECURSIVE ReportLines(_, _)
ReportLines(results, templates) ==
    IF templates = <<>> THEN <<>>
    ELSE TemplateLines(results, Head(templates)) \o ReportLines(results, Tail(templates))

\* lines 98-104
SummaryLines(r) ==
    <<Times("=", 60),
      "SUMMARY: " \o ToString(passed_count(r)) \o " passed, "
          \o ToString(failed_count(r)) \o " failed",
      IF passed(r) THEN "All checks passed!"
      ELSE "Some checks failed. Please fix the issues above.",
      Times("=", 60)>>

format_report(r) ==
    JoinWith(<<Times("=", 60), "PROMPTKIT DOCTOR REPORT", Times("=", 60), "">>
             \o ReportLines(r.results,
                            Sorted({r.results[i].template : i \in 1..Len(r.results)}))
             \o SummaryLines(r),
             "\n")

\* lines 300-303: the report of the results validate_template returned
RECURSIVE AddAll(_, _)
AddAll(r, results) ==
    IF results = <<>> THEN r ELSE AddAll(add(r, Head(results)), Tail(results))

ReportOfResults(results) ==
    IF results.raised # "" THEN results ELSE Returned(AddAll(DoctorReport(<<>>), results.val))

\* lines 295-309: the report, or the exception raised on the way to it
ReportFor(st, template) ==
    IF template # "" THEN ReportOfResults(validate_template(st, template))
    ELSE validate_all_templates(st)

\* the last line of the traceback of an exception nothing catches
Traceback(r) == r.raised \o ": " \o MessageOf(r)

\* a variant of ExitStatus that is 0 whatever the report says
ExitStatusZero(r) == 0

\* lines 313-314
ExitStatus(r) == IF passed(r) THEN 0 ELSE 1

\* lines 295-314, the report having been made or not
DoctorEnds(template, r) ==
    /\ report' = r
    /\ IF r.raised = "TemplateNotFoundError" /\ template # ""
       THEN /\ stderr' = Append(stderr, "Error: " \o MessageOf(r))
            /\ exit_code' = 1
            /\ UNCHANGED stdout
       ELSE IF r.raised # ""
       THEN /\ stderr' = Append(stderr, Traceback(r))
            /\ exit_code' = 1
            /\ UNCHANGED stdout
       ELSE /\ stdout' = Append(stdout, format_report(r.val))
            /\ exit_code' = ExitStatus(r.val)
            /\ UNCHANGED stderr

\* pk doctor [--template NAME]
DoctorCmd ==
    /\ pc = "doctor_cmd"
    /\ \E template \in {""} \cup DoctorNames :
          /\ args' = [args EXCEPT !.template = template]
          /\ DoctorEnds(template, ReportFor(store, template))
    /\ pc' = "exited"
    /\ UNCHANGED <<store, added>>
    /\ Frame({"cmd", "doctor"})

InitDoctorCmd ==
    /\ pc = "doctor_cmd"
    /\ store \in DoctorStores
    /\ args = NoArgs
    /\ stdout = <<>>
    /\ stderr = <<>>
    /\ exit_code = 0
    /\ report = NotCalled
    /\ added = <<>>
    /\ IdleExcept({"cmd", "doctor"})

NextDoctorCmd == DoctorCmd

SpecDoctorCmd == InitDoctorCmd /\ [][NextDoctorCmd]_vars

\* the templates of a store: its directories that hold a template.md
TemplatesOf(st) == {n \in DOMAIN st : st[n].template_md.exists}

\* some check of template n fails: its validation yields a failed result, or
\* breaks off
FailsSomeCheck(st, n) ==
    \/ validate_template(st, n).raised # ""
    \/ \E i \in 1..Len(validate_template(st, n).val) : ~validate_template(st, n).val[i].passed

\* some check of the run fails: of the named template, or of any template of
\* the store (there being no template at all is a failed check too)
SomeCheckFails ==
    IF args.template # ""
    THEN args.template \in DOMAIN store /\ FailsSomeCheck(store, args.template)
    ELSE TemplatesOf(store) = {} \/ \E n \in TemplatesOf(store) : FailsSomeCheck(store, n)

\* C12: the doctor command exits with a non-zero status if and only if some
\* check failed or the template named by --template does not exist; when
\* every check passes it prints the report and exits with 0.
C12_ExitStatusOfDoctor ==
    pc = "exited" =>
        /\ exit_code # 0 <=>
              \/ SomeCheckFails
              \/ args.template # "" /\ args.template \notin DOMAIN store
        /\ exit_code = 0 =>
              /\ report.raised = ""
              /\ passed(report.val)
              /\ stdout = <<format_report(report.val)>>
              /\ stderr = <<>>

\* a run on all templates has printed a report with one failed check among
\* passing ones, and has left with status 1
C12_Witness ==
    /\ pc = "exited"
    /\ args.template = ""
    /\ report.raised = ""
    /\ failed_count(report.val) = 1 /\ passed_count(report.val) >= 4
    /\ stdout = <<format_report(report.val)>>
    /\ exit_code = 1


-----------------------------------------------------------------------------
(* The golden test *)

\* the results of a report that are about template n
ResultsAbout(r, n) == SelectSeq(r.results, LAMBDA result : result.template = n)

\* the store with a golden file put into directory x
WithGolden(st, x, text) == [st EXCEPT ![x].golden = Present(text)]

\* C13 as stated: when the golden file of a template x is missing, the doctor
\* reports a failed golden_test result for x, the report as a whole fails, and
\* the results of every other template are what they would be with x's golden
\* file present.
C13_MissingGoldenFails ==
    /\ pc = "doctor:all" =>
          \A x \in TemplatesOf(store) :
              ~store[x].golden.exists =>
                  /\ report.raised = ""
                  /\ \E i \in 1..Len(report.val.results) :
                        /\ report.val.results[i].template = x
                        /\ report.val.results[i].check = "golden_test"
                        /\ ~report.val.results[i].passed
                  /\ ~passed(report.val)
                  /\ \A y \in TemplatesOf(store) \ {x} :
                        ResultsAbout(report.val, y) =
                            ResultsAbout(validate_all_templates(
                                             WithGolden(store, x, "Hi v\n")).val, y)
    /\ (/\ pc = "doctor:one"
        /\ args.template \in TemplatesOf(store)
        /\ ~store[args.template].golden.exists) =>
          /\ report.raised = ""
          /\ \E i \in 1..Len(report.val) :
                /\ report.val[i].check = "golden_test"
                /\ ~report.val[i].passed


-----------------------------------------------------------------------------
(* The normalization specification: normalize_text on a text and on a text *)
(* that differs from it in one line ending, in white space at the end of   *)
(* one line, or in one blank line at the end.                              *)

MaxTextLen == 4

TextChars == {"a", " ", "\t", "\r", "\n"}

LineEndings == {"\n", "\r", "\r\n"}

\* position i of t is where a line ending begins (the LF of a CRLF is not)
EndsLineAt(t, i) == At(t, i) = "\r" \/ (At(t, i) = "\n" /\ At(t, i - 1) # "\r")

\* the line ending that begins at position i of t
LineEndingAt(t, i) == IF At(t, i) = "\r" /\ At(t, i + 1) = "\n" THEN "\r\n" ELSE At(t, i)

\* t with its characters i..j replaced by s
Spliced(t, i, j, s) == Slice(t, 1, i - 1) \o s \o Slice(t, j + 1, Len(t))

\* the line ending e put between the parts t1 and t2 remains that line ending
Stays(t1, e, t2) ==
    /\ ~(At(e, 1) = "\n" /\ At(t1, Len(t1)) = "\r")
    /\ ~(At(e, Len(e)) = "\r" /\ At(t2, 1) = "\n")

InitNormalize ==
    /\ pc = "normalize"
    /\ original \in StringsUpTo(TextChars, MaxTextLen)
    /\ changed = original
    /\ normalized = <<>>
    /\ IdleExcept({"normalize"})

\* normalize_text(original), normalize_text(u) and their comparison
Normalize(u) ==
    /\ changed' = u
    /\ normalized' = <<normalize_text(original), normalize_text(u),
                       GoldenCompared("t1", normalize_text(original), normalize_text(u))>>
    /\ pc' = "normalized"
    /\ UNCHANGED original
    /\ Frame({"normalize"})

\* the other text has one line ending in another style
OtherLineEnding ==
    /\ pc = "normalize"
    /\ \E i \in 1..Len(original), e \in LineEndings :
          /\ EndsLineAt(original, i)
          /\ e # LineEndingAt(original, i)
          /\ Stays(Slice(original, 1, i - 1), e,
                   Slice(original, i + Len(LineEndingAt(original, i)), Len(original)))
          /\ Normalize(Spliced(original, i, i + Len(LineEndingAt(original, i)) - 1, e))

\* the other text has one more white space character at the end of a line
MoreTrailingWhitespace ==
    /\ pc = "normalize"
    /\ \E i \in 1..(Len(original) + 1), w \in {" ", "\t"} :
          /\ i = Len(original) + 1 \/ EndsLineAt(original, i)
          /\ Normalize(Spliced(original, i, i - 1, w))

\* the other text has one white space character less at the end of a line
\* (a line between a CR and an LF keeps a character: without any, the two
\* would read as one CRLF)
LessTrailingWhitespace ==
    /\ pc = "normalize"
    /\ \E i \in 1..Len(original) :
          /\ At(original, i) \in {" ", "\t"}
          /\ i = Len(original) \/ EndsLineAt(original, i + 1)
          /\ ~(At(original, i - 1) = "\r" /\ At(original, i + 1) = "\n")
          /\ Normalize(Spliced(original, i, i, ""))

\* the other text has one more blank line at its end
MoreBlankLines ==
    /\ pc = "normalize"
    /\ \E e \in LineEndings :
          /\ Stays(original, e, "")
          /\ Normalize(original \o e)

\* the other text has one blank line less at its end
FewerBlankLines ==
    /\ pc = "normalize"
    /\ \E i \in 1..Len(original) :
          /\ EndsLineAt(original, i)
          /\ i + Len(LineEndingAt(original, i)) - 1 = Len(original)
          /\ Normalize(Slice(original, 1, i - 1))

NextNormalize ==
    \/ OtherLineEnding
    \/ MoreTrailingWhitespace
    \/ LessTrailingWhitespace
    \/ MoreBlankLines
    \/ FewerBlankLines

SpecNormalize == InitNormalize /\ [][NextNormalize]_vars

\* C14: normalize_text gives the same result for two texts that differ only
\* in the style of a line ending (CRLF, CR or LF), in white space at the end of
\* a line, or in the number of blank lines at the end; and the golden
\* comparison of two such texts passes.
C14_NormalizeIgnoresLineStyle ==
    pc = "normalized" =>
        /\ normalized[1] = normalized[2]
        /\ normalized[3].passed

\* a text with a CRLF inside and its counterpart with a bare CR
C14_Witness ==
    /\ pc = "normalized"
    /\ original = "a\r\na"
    /\ changed = "a\ra"
    /\ normalized[1] = "a\na" /\ normalized[2] = "a\na"
    /\ normalized[3].passed


-----------------------------------------------------------------------------
(* The render command on inputs that give output_format in every layer *)

FormatSchemas ==
    { [title |-> "t", type |-> "object",
       properties |-> [a |-> [type |-> "string", default |-> StrV("v")],
                       output_format |-> [type |-> "string", default |-> StrV("markdown")]]],
      [title |-> "t", type |-> "object",
       properties |-> [a |-> [type |-> "string"],
                       output_format |-> [type |-> "string",
                                          enum |-> <<StrV("markdown"), StrV("json")>>]]] }

FormatExamples ==
    { [f \in {"p.yaml"} |->
          YamlDoc(ObjV([k \in {"a", "output_format"} |->
                           IF k = "a" THEN StrV("w") ELSE StrV("text")]))],
      [f \in {"p.yaml"} |-> YamlDoc(ObjV([k \in {"output_format"} |-> StrV("json")]))] }

FormatStores ==
    {[n \in {"t1"} |-> TemplateDir(Present(c), SchemaFile(sch), ex, NoGolden)] :
        c \in CmdTemplates, sch \in FormatSchemas, ex \in FormatExamples}

FormatFiles ==
    { [q \in {"params.json"} |-> File("{\"a\": \"f\", \"output_format\": \"html\"}")],
      [q \in {"params.json"} |-> File("{\"b\": \"f\"}")] }

FormatArgs ==
    [template : {"t1"},
     preset : {"", "p"},
     params_file : {"", "params.json", "params.yaml"},
     overrides : {<<>>, <<"output_format=xml">>, <<"a=x", "output_format=json", "a= y">>,
                  <<"b=1", "a">>},
     output_file : {""},
     output_format : {"", "markdown", "json"},
     run_dir : {"", RunDir}]

InitFormat ==
    /\ pc = "cmd:start"
    /\ store \in FormatStores
    /\ args \in FormatArgs
    /\ fs \in FormatFiles
    /\ stdout = <<>>
    /\ stderr = <<>>
    /\ exit_code = 0
    /\ MergeIdle /\ ValidateIdle /\ RenderIdle
    /\ clock = 0 /\ template_name = "" /\ started = 0 /\ calls = 0 /\ emitted = NotCalled
    /\ IdleExcept({"merge", "validate", "render", "packet", "cmd"})

SpecFormat == InitFormat /\ [][NextCmd]_vars

\* the render command has merged the parameters
HasMerged ==
    \/ pc \in {"cmd:validate", "cmd:render", "cmd:emit", "cmd:output"}
    \/ pc = "exited" /\ validation # NotValidated

\* the --set flags that give key k, by position
SetsOf(k) ==
    {i \in 1..Len(args.overrides) : parse_cli_override(args.overrides[i]).val.key = k}

\* the layers that supply key k, on the inputs of the command
InSets(k) == SetsOf(k) # {}
InFile(k) ==
    args.params_file # "" /\ k \in DOMAIN load_params_file(fs, args.params_file).val.val
InPreset(k) ==
    args.preset # "" /\ k \in DOMAIN load_preset(store, args.template, args.preset).val
InDefaults(k) ==
    /\ "properties" \in DOMAIN load_schema(store, args.template).val
    /\ k \in DOMAIN load_schema(store, args.template).val["properties"]
    /\ "default" \in DOMAIN load_schema(store, args.template).val["properties"][k]

\* the value the layers give to key k, --format left aside
LayeredValue(k) ==
    IF InSets(k) THEN parse_cli_override(args.overrides[MaxOf(SetsOf(k))]).val.value
    ELSE IF InFile(k) THEN load_params_file(fs, args.params_file).val.val[k]
    ELSE IF InPreset(k) THEN load_preset(store, args.template, args.preset).val[k]
    ELSE load_schema(store, args.template).val["properties"][k]["default"]

\* C15: in the render command, with --format the merged parameter
\* output_format is the --format value whatever the schema default, the
\* preset, the params file and the --set flags give for it; without --format,
\* and for every other key, a --set value wins over the params file, which
\* wins over the preset, which wins over the schema default.
C15_FormatWinsThenLayers ==
    HasMerged =>
        /\ args.output_format # "" =>
              /\ "output_format" \in DOMAIN merged
              /\ merged["output_format"] = StrV(args.output_format)
        /\ \A k \in {"a", "b", "output_format"} :
              (k # "output_format" \/ args.output_format = "") =>
                  /\ k \in DOMAIN merged <=>
                        InSets(k) \/ InFile(k) \/ InPreset(k) \/ InDefaults(k)
                  /\ k \in DOMAIN merged => merged[k] = LayeredValue(k)

\* --format markdown against output_format=json from --set and other values
\* from the params file, the preset and the schema default, in a run that
\* ended well
C15_Witness ==
    /\ pc = "exited"
    /\ exit_code = 0
    /\ args.output_format = "markdown"
    /\ InSets("output_format") /\ LayeredValue("output_format") = StrV("json")
    /\ InFile("output_format") /\ InPreset("output_format") /\ InDefaults("output_format")
    /\ merged["output_format"] = StrV("markdown")
    /\ merged["a"] = StrV("y")


-----------------------------------------------------------------------------
(* The preset-listing specification: list_presets on one examples directory *)

PresetFileNames ==
    {"a.yaml", "a-b.yaml", "a.yml", "b.yml", "a.b.yaml", ".yaml", "notes.txt", "yaml"}

PresetExamples ==
    UNION {[F -> {YamlDoc(ObjV(EmptyMap))}] : F \in SUBSET PresetFileNames}

PresetStores ==
    {[n \in {"t1"} |-> TemplateDir(NoTemplate, SchemaMissing, ex, NoGolden)] :
        ex \in PresetExamples}

InitPresets ==
    /\ pc = "store"
    /\ store \in PresetStores
    /\ args = NoArgs
    /\ stdout = <<>>
    /\ stderr = <<>>
    /\ exit_code = 0
    /\ outcome = NotCalled
    /\ IdleExcept({"cmd", "lookup"})

\* list_presets(name)
ListPresets ==
    /\ pc = "store"
    /\ \E name \in DOMAIN store \cup {"t1", "t2"} :
          /\ args' = [args EXCEPT !.template = name]
          /\ outcome' = list_presets(store, name)
    /\ pc' = "store:list_presets"
    /\ UNCHANGED <<store, stdout, stderr, exit_code>>
    /\ Frame({"cmd", "lookup"})

NextPresets == ListPresets

SpecPresets == InitPresets /\ [][NextPresets]_vars

\* the files of an examples directory that have a YAML extension
YamlFiles(examples) ==
    {f \in DOMAIN examples :
        \E e \in {".yaml", ".yml"} :
            Len(f) > Len(e) /\ Slice(f, Len(f) - Len(e) + 1, Len(f)) = e}

\* the name of file f without its last extension
WithoutExtension(f) ==
    Slice(f, 1, MaxOf({i \in 1..Len(f) : At(f, i) = "."}) - 1)

\* C16 as stated: list_presets returns the stems of exactly the files of the
\* examples directory with a .yaml or .yml extension, and the list of names
\* is in lexicographically sorted order, whatever the file names are.
C16_PresetsSortedByName ==
    (pc = "store:list_presets" /\ outcome.raised = "") =>
        /\ Len(outcome.val) = Cardinality(YamlFiles(store[args.template].examples))
        /\ {outcome.val[i] : i \in 1..Len(outcome.val)} =
               {WithoutExtension(f) : f \in YamlFiles(store[args.template].examples)}
        /\ \A i, j \in 1..Len(outcome.val) :
               i < j => ~LexLess(outcome.val[j], outcome.val[i])


-----------------------------------------------------------------------------
(* The lookup specification: the functions that resolve a template name *)

InitLookup ==
    /\ pc = "store"
    /\ store \in DoctorStores
    /\ args = NoArgs
    /\ stdout = <<>>
    /\ stderr = <<>>
    /\ exit_code = 0
    /\ outcome = NotCalled
    /\ IdleExcept({"cmd", "lookup"})

\* get_template_dir(name)
GetTemplateDir ==
    /\ pc = "store"
    /\ \E name \in DoctorNames :
          /\ args' = [args EXCEPT !.template = name]
          /\ outcome' = get_template_dir(store, name)
    /\ pc' = "store:get_template_dir"
    /\ UNCHANGED <<store, stdout, stderr, exit_code>>
    /\ Frame({"cmd", "lookup"})

\* load_template(name)
LoadTemplate ==
    /\ pc = "store"
    /\ \E name \in DoctorNames :
          /\ args' = [args EXCEPT !.template = name]
          /\ outcome' = load_template(store, name)
    /\ pc' = "store:load_template"
    /\ UNCHANGED <<store, stdout, stderr, exit_code>>
    /\ Frame({"cmd", "lookup"})

\* load_schema(name)
LoadSchema ==
    /\ pc = "store"
    /\ \E name \in DoctorNames :
          /\ args' = [args EXCEPT !.template = name]
          /\ outcome' = load_schema(store, name)
    /\ pc' = "store:load_schema"
    /\ UNCHANGED <<store, stdout, stderr, exit_code>>
    /\ Frame({"cmd", "lookup"})

NextLookup == GetTemplateDir \/ LoadTemplate \/ LoadSchema \/ ListPresets

SpecLookup == InitLookup /\ [][NextLookup]_vars

\* the template-not-found message for name n that lists the templates of st
NotFoundListing(st, n) ==
    "Template '" \o n \o "' not found. Available templates: "
    \o (IF TemplatesOf(st) = {} THEN "none" ELSE JoinWith(Sorted(TemplatesOf(st)), ", "))

\* C17 as stated: for every template name whose directory is absent from the
\* store, get_template_dir, and with it load_template, load_schema and
\* list_presets, fails with the template-not-found condition, and the message
\* lists the available template names.
C17_NotFoundListsTemplates ==
    (/\ pc \in {"store:get_template_dir", "store:load_template", "store:load_schema",
                "store:list_presets"}
     /\ args.template \notin DOMAIN store) =>
        /\ outcome.raised = "TemplateNotFoundError"
        /\ MessageOf(outcome) = NotFoundListing(store, args.template)


-----------------------------------------------------------------------------
(* merge_params as an overlay *)

\* the keys a call of merge_params has to return: those of the schema
\* defaults and of every layer given
KeysGiven ==
    DOMAIN get_schema_defaults(schema)
    \cup (IF preset_params.some THEN DOMAIN preset_params.val ELSE {})
    \cup (IF file_params.some THEN DOMAIN file_params.val ELSE {})
    \cup (IF cli_overrides.some THEN DOMAIN cli_overrides.val ELSE {})

\* C18: merge_params is a pure overlay: it validates nothing, returning a
\* mapping of all the keys given for every input, values that violate the
\* schema included, and it leaves the schema and the preset, file and
\* CLI-override mappings passed to it as they were.
C18_MergeIsPureOverlay ==
    [][(pc = "merge" /\ pc' = "merged") =>
          /\ DOMAIN merged' = KeysGiven
          /\ schema' = schema
          /\ preset_params' = preset_params
          /\ file_params' = file_params
          /\ cli_overrides' = cli_overrides]_vars

\* merge_params has returned parameters that violate the schema, from three
\* layers
C18_Witness ==
    /\ pc = "merged"
    /\ Truthy(preset_params) /\ Truthy(file_params) /\ Truthy(cli_overrides)
    /\ "properties" \in DOMAIN schema
    /\ validate_params(schema, merged).raised = "SchemaValidationError"
    /\ DOMAIN merged = {"a", "b"}


-----------------------------------------------------------------------------
(* The doctor only reads *)

\* C19: a run of the doctor, validate_template or validate_all_templates,
\* whatever the store holds and whatever the checks find, leaves the template
\* store and every other file as they were: it creates, changes and deletes
\* no file and emits no run packet.
C19_DoctorOnlyReads ==
    [][pc = "doctor" => (store' = store /\ fs' = fs /\ emitted' = NotCalled)]_vars

\* a run over two templates has rendered, with checks that passed and checks
\* that failed
C19_Witness ==
    /\ pc = "doctor:all"
    /\ report.raised = ""
    /\ DOMAIN store = {"t1", "t2"}
    /\ \E i \in 1..Len(report.val.results) :
          /\ report.val.results[i].check = "golden_test"
          /\ report.val.results[i].passed
    /\ failed_count(report.val) > 0
    /\ fs = EmptyMap


-----------------------------------------------------------------------------
(* The five checks of a template *)

\* which of the five checks a result belongs to, by its check name
CheckOf(result) ==
    IF result.check = "schema_json" THEN 1
    ELSE IF result.check = "presets" \/ Slice(result.check, 1, 7) = "preset:" THEN 2
    ELSE IF result.check = "variable_coverage" THEN 3
    ELSE IF result.check = "render" \/ Slice(result.check, 1, 7) = "render:" THEN 4
    ELSE IF result.check = "golden_test" THEN 5
    ELSE 0

\* C20 as stated: for a template directory that exists, validate_template
\* returns results for all five checks, in the order schema validity, preset
\* validity, variable coverage, render with each preset, golden comparison;
\* and each check's results are those the check gives by itself, whatever the
\* other checks find.
C20_AllFiveChecksInOrder ==
    (pc = "doctor:one" /\ args.template \in DOMAIN store) =>
        /\ report.raised = ""
        /\ {CheckOf(report.val[i]) : i \in 1..Len(report.val)} = 1..5
        /\ \A i, j \in 1..Len(report.val) :
               i < j => CheckOf(report.val[i]) <= CheckOf(report.val[j])
        /\ report.val =
               <<validate_schema_json(store, args.template).val>>
               \o validate_presets(store, args.template).val
               \o <<validate_variable_coverage(store, args.template).val>>
               \o validate_template_renders(store, args.template).val
               \o <<validate_golden_test(store, args.template).val>>


-----------------------------------------------------------------------------
(* The digests of a run packet, read back from its files *)

\* the content of file q of the packet directory
PacketFile(q) == fs[PacketDir \o "/" \o q].content

\* the text of a meta.json with the given digests, written at time u
MetaText(prompt_hash, params_hash, u) ==
    Dumps(ObjV([template |-> StrV(template_name),
                version |-> StrV(template_version),
                prompt_hash |-> StrV(prompt_hash),
                timestamp |-> StrV(isoformat(u)),
                params_hash |-> StrV(params_hash)]), 2, 0)

\* meta.json of the packet directory records these two digests
MetaRecords(prompt_hash, params_hash) ==
    \E u \in started..clock :
        PacketFile("meta.json") = MetaText(prompt_hash, params_hash, u)

\* the parameters read back from params.resolved.json
PacketParamsRead == json_loads(PacketFile("params.resolved.json"))

\* C21 as stated: the params_hash of meta.json is the digest of the content
\* of params.resolved.json, as prompt_hash is the digest of the content of
\* prompt.md.
C21_HashesOfArtifacts ==
    (pc = "emitted" /\ emitted.raised = "") =>
        MetaRecords(compute_hash(PacketFile("prompt.md")),
                    compute_hash(PacketFile("params.resolved.json")))

\* C21, amended: prompt_hash is the digest of the content of prompt.md;
\* params_hash is the digest of the parameters of params.resolved.json in
\* their sorted-key serialization without indentation, which is the content
\* of that file only when the two serializations are the same text.
C21_HashOfCompactParams ==
    (pc = "emitted" /\ emitted.raised = "") =>
        /\ PacketParamsRead.ok
        /\ MetaRecords(compute_hash(PacketFile("prompt.md")),
                       compute_hash(Dumps(PacketParamsRead.val, 0, 0)))
        /\ C21_HashesOfArtifacts <=>
               Dumps(PacketParamsRead.val, 0, 0) = PacketFile("params.resolved.json")

\* a packet of nested parameters, whose file is indented over several lines
C21_Witness ==
    /\ pc = "emitted"
    /\ emitted.raised = ""
    /\ DOMAIN merged = {"a", "b"}
    /\ PacketParamsRead.val = ObjV(merged)
    /\ Contains(PacketFile("params.resolved.json"), "\n")
    /\ ~MetaRecords(compute_hash(PacketFile("prompt.md")),
                    compute_hash(PacketFile("params.resolved.json")))

-----------------------------------------------------------------------------
(* The preset-validity check *)

\* the results of check number k (1..5) among the results rs
ResultsOfCheck(rs, k) == SelectSeq(rs, LAMBDA result : CheckOf(result) = k)

\* the names of the presets of template n: its YAML files without extension
PresetNames(st, n) == {WithoutExtension(f) : f \in YamlFiles(st[n].examples)}

\* the file of preset p of template n
PresetFile(st, n, p) ==
    st[n].examples[CHOOSE f \in YamlFiles(st[n].examples) : WithoutExtension(f) = p]

\* preset p of template n is a mapping (an empty document is the empty one)
\* that, laid over the defaults of the schema, passes validate_params
PresetValid(st, n, p) ==
    /\ load_schema(st, n).raised = ""
    /\ PresetFile(st, n, p).yaml
    /\ PresetFile(st, n, p).doc.kind \in {"obj", "null"}
    /\ validate_params(
           load_schema(st, n).val,
           Update(get_schema_defaults(load_schema(st, n).val),
                  IF PresetFile(st, n, p).doc.kind = "obj"
                  THEN PresetFile(st, n, p).doc.val ELSE EmptyMap)).raised = ""

\* C22 as stated: the preset-validity check passes for every template that
\* has zero presets, and otherwise yields one result per preset, which passes
\* exactly when that preset merged over the schema defaults passes
\* validate_params.
C22_PresetCheckPerPreset ==
    (pc = "doctor:one" /\ args.template \in DOMAIN store) =>
        /\ report.raised = ""
        /\ IF PresetNames(store, args.template) = {}
           THEN \A i \in 1..Len(ResultsOfCheck(report.val, 2)) :
                    ResultsOfCheck(report.val, 2)[i].passed
           ELSE /\ Len(ResultsOfCheck(report.val, 2)) =
                       Cardinality(PresetNames(store, args.template))
                /\ \A p \in PresetNames(store, args.template) :
                       \E i \in 1..Len(ResultsOfCheck(report.val, 2)) :
                           /\ ResultsOfCheck(report.val, 2)[i].check = "preset:" \o p
                           /\ ResultsOfCheck(report.val, 2)[i].passed
                                  <=> PresetValid(store, args.template, p)


-----------------------------------------------------------------------------
(* The variable-coverage check, over templates that refer to declared,      *)
(* undeclared, built-in and loop-bound names                                *)

CoverageTemplates ==
    { <<Text("Hi")>>,
      <<Var("a")>>,
      <<Var("a"), Text(" "), Var("loop")>>,
      <<Var("b"), If("c", <<Var("a")>>, <<Var("self")>>)>>,
      <<For("a", <<Var(LoopVar), Default("d", "-")>>)>> }

CoverageProperties == {{}, {"a"}, {"a", "e"}, {"a", "b", "c", "d"}, {"loop", "z"}}

CoverageSchemas ==
    {[title |-> "t"]}
    \cup {[title |-> "t", properties |-> [k \in K |-> [type |-> "string"]]] :
             K \in CoverageProperties}

CoverageStores ==
    {[n \in {"t1"} |-> TemplateDir(t, sch, EmptyMap, NoGolden)] :
        t \in {NoTemplate} \cup {Present(c) : c \in CoverageTemplates},
        sch \in {SchemaMissing, SchemaMalformed} \cup {SchemaFile(s) : s \in CoverageSchemas}}

InitCoverage ==
    /\ pc = "doctor"
    /\ store \in CoverageStores
    /\ args = NoArgs
    /\ stdout = <<>>
    /\ stderr = <<>>
    /\ exit_code = 0
    /\ outcome = NotCalled
    /\ IdleExcept({"cmd", "lookup"})

\* validate_variable_coverage(name)
ValidateVariableCoverage ==
    /\ pc = "doctor"
    /\ \E name \in DoctorNames :
          /\ args' = [args EXCEPT !.template = name]
          /\ outcome' = validate_variable_coverage(store, name)
    /\ pc' = "doctor:variable_coverage"
    /\ UNCHANGED <<store, stdout, stderr, exit_code>>
    /\ Frame({"cmd", "lookup"})

NextCoverage == ValidateVariableCoverage

SpecCoverage == InitCoverage /\ [][NextCoverage]_vars

\* the template document of directory n, where there is one
DocumentOf(st, n) ==
    IF n \in DOMAIN st /\ st[n].template_md.exists THEN st[n].template_md.val ELSE <<>>

\* the properties the schema of directory n declares, where there is one
DeclaredIn(st, n) ==
    IF n \in DOMAIN st /\ st[n].schema_json.exists /\ st[n].schema_json.json
       /\ "properties" \in DOMAIN st[n].schema_json.val
    THEN DOMAIN st[n].schema_json.val["properties"] ELSE {}

\* (free variables of the template) minus (declared schema properties) minus
\* (the fixed exclusion set)
Undeclared(st, n) ==
    (FreeNames(DocumentOf(st, n)) \ DeclaredIn(st, n))
        \ {"loop", "self", "range", "dict", "lipsum", "cycler", "joiner"}

\* the names listed in text s after its first colon, separated by ", "
RECURSIVE NamesListed(_)
NamesListed(s) ==
    IF s = "" THEN {}
    ELSE IF Find(s, ",") = 0 THEN {s}
    ELSE {Slice(s, 1, Find(s, ",") - 1)} \cup NamesListed(Slice(s, Find(s, ",") + 2, Len(s)))

AfterColon(s) == Slice(s, Find(s, ":") + 2, Len(s))

\* both documents of directory n load
Loads(st, n) ==
    /\ n \in DOMAIN st
    /\ st[n].template_md.exists
    /\ st[n].schema_json.exists /\ st[n].schema_json.json

\* the statement of C23 for the result of the check
CoverageAsClaimed ==
    /\ outcome.raised = ""
    /\ ~outcome.val.passed <=> Undeclared(store, args.template) # {}
    /\ ~outcome.val.passed =>
           NamesListed(AfterColon(outcome.val.message)) = Undeclared(store, args.template)
    /\ DeclaredIn(store, args.template) \ FreeNames(DocumentOf(store, args.template)) # {} =>
           \/ ~outcome.val.passed /\ Undeclared(store, args.template) # {}
           \/ /\ outcome.val.passed
              /\ Len(outcome.val.details) = 1
              /\ outcome.val.details[1] =
                     "Schema variables not used in template: "
                     \o ReprNames(DeclaredIn(store, args.template)
                                      \ FreeNames(DocumentOf(store, args.template)))

\* C23 as stated: the variable-coverage check fails exactly when the set
\* (free variables of the template) minus (declared schema properties) minus
\* (the fixed built-in exclusion set) is non-empty, and then the message lists
\* exactly those names; schema properties the template never references are
\* listed in the details of a passing result and never cause a failure.
C23_CoverageFailsOnUndeclared ==
    pc = "doctor:variable_coverage" => CoverageAsClaimed

\* C23, amended: the statement holds when the template document and the
\* schema both load; when one of them does not, the check fails with the
\* message of the load failure and lists no names.
C23_CoverageOfLoadedTemplate ==
    pc = "doctor:variable_coverage" =>
        IF Loads(store, args.template)
        THEN CoverageAsClaimed
        ELSE /\ outcome.raised = ""
             /\ ~outcome.val.passed
             /\ Slice(outcome.val.message, 1, 32) = "Could not load template/schema: "
             /\ outcome.val.details = <<>>

\* undeclared names next to excluded ones, with properties that are not used
C23_Witness ==
    /\ pc = "doctor:variable_coverage"
    /\ Loads(store, args.template)
    /\ ~outcome.val.passed
    /\ Undeclared(store, args.template) = {"b", "c"}
    /\ "self" \in FreeNames(DocumentOf(store, args.template))
    /\ "e" \in DeclaredIn(store, args.template)


-----------------------------------------------------------------------------
(* The golden comparison of a rendered text with an expected text, over     *)
(* texts of short lines and of lines around 80 characters                   *)

MaxGoldenLines == 2

LongLine == Times("x", 79)

GoldenLines == {"", LongLine \o "a", LongLine \o "ab ", LongLine \o "acdefg"}

\* the texts of up to n of these lines, each but the first after a line feed
RECURSIVE GoldenTexts(_)
GoldenTexts(n) ==
    IF n = 0 THEN {""}
    ELSE IF n = 1 THEN GoldenLines
    ELSE GoldenTexts(n - 1) \cup {t \o "\n" \o l : t \in GoldenTexts(n - 1), l \in GoldenLines}

InitGolden ==
    /\ pc = "golden"
    /\ original \in GoldenTexts(MaxGoldenLines)
    /\ changed = ""
    /\ normalized = <<>>
    /\ IdleExcept({"normalize"})

\* lines 373-410 of validate_golden_test, for the rendered text `original`
\* and the text `expected` of the golden file
CompareGolden ==
    /\ pc = "golden"
    /\ \E expected \in GoldenTexts(MaxGoldenLines) :
          /\ changed' = expected
          /\ normalized' = <<normalize_text(original), normalize_text(expected),
                             GoldenCompared("t1", normalize_text(original),
                                            normalize_text(expected))>>
    /\ pc' = "golden:compared"
    /\ UNCHANGED original
    /\ Frame({"normalize"})

NextGolden == CompareGolden

SpecGolden == InitGolden /\ [][NextGolden]_vars

\* the line indices within the shorter length at which r and e differ
DifferAt(r, e) == {i \in 1..Len(r) : i <= Len(e) /\ r[i] # e[i]}

\* line s cut to 80 characters, marked where it was cut
Truncated(s) == IF Len(s) > 80 THEN Slice(s, 1, 80) \o "..." ELSE s

\* the details d of a comparison of the rendered lines r with the expected
\* lines e are as C24 says
DetailsAsClaimed(d, r, e) ==
    /\ d # <<>>
    /\ IF DifferAt(r, e) # {}
       THEN d = <<"First difference at line " \o ToString(MinOf(DifferAt(r, e))) \o ":",
                  "  Expected: " \o Truncated(e[MinOf(DifferAt(r, e))]),
                  "  Got:      " \o Truncated(r[MinOf(DifferAt(r, e))])>>
       ELSE /\ Len(r) # Len(e)
            /\ d = <<"Line count mismatch: expected " \o ToString(Len(e))
                         \o ", got " \o ToString(Len(r))>>

\* C24: whenever the golden comparison fails because the normalized rendered
\* text differs from the normalized golden text, the details of the result
\* are non-empty and report the smallest line index at which the two differ
\* within the shorter length, each side truncated to 80 characters, or, when
\* no line differs within the shorter length, a line-count mismatch giving
\* both line counts.
C24_GoldenDetailsLocateDifference ==
    (pc = "golden:compared" /\ normalized[1] # normalized[2]) =>
        /\ ~normalized[3].passed
        /\ DetailsAsClaimed(normalized[3].details,
                            SplitLines(normalized[1]), SplitLines(normalized[2]))

\* two texts whose second lines differ only after their 80th character, so
\* that both sides are shown cut to the same 80 characters
C24_Witness ==
    /\ pc = "golden:compared"
    /\ original = LongLine \o "a\n" \o LongLine \o "ab "
    /\ changed = LongLine \o "a\n" \o LongLine \o "acdefg"
    /\ ~normalized[3].passed
    /\ normalized[3].details[1] = "First difference at line 2:"
    /\ Len(normalized[3].details[2]) = 12 + 83
    /\ Slice(normalized[3].details[2], 13, 95) = Slice(normalized[3].details[3], 13, 95)


-----------------------------------------------------------------------------
(* The render check *)

\* the parameters of preset p of template n laid over the defaults of the
\* schema, validated and rendered: all of it succeeds
RendersWith(st, n, preset) ==
    /\ load_schema(st, n).raised = ""
    /\ load_template(st, n).raised = ""
    /\ validate_params(load_schema(st, n).val,
                       Update(get_schema_defaults(load_schema(st, n).val), preset)).raised = ""
    /\ render(load_template(st, n).val,
              Update(get_schema_defaults(load_schema(st, n).val), preset)).raised = ""

\* preset p of template n is a mapping (an empty document is the empty one)
\* with which merging, validating and rendering succeed
PresetRenders(st, n, p) ==
    /\ PresetFile(st, n, p).yaml
    /\ PresetFile(st, n, p).doc.kind \in {"obj", "null"}
    /\ RendersWith(st, n, IF PresetFile(st, n, p).doc.kind = "obj"
                          THEN PresetFile(st, n, p).doc.val ELSE EmptyMap)

\* C25 as stated: the render check yields exactly one result per preset of
\* the template, or exactly one result for the schema defaults alone when the
\* template has no presets, and each result passes exactly when merging,
\* validating and rendering with those parameters all succeed.
C25_RenderCheckPerPreset ==
    (pc = "doctor:one" /\ args.template \in DOMAIN store) =>
        /\ report.raised = ""
        /\ IF PresetNames(store, args.template) = {}
           THEN /\ Len(ResultsOfCheck(report.val, 4)) = 1
                /\ ResultsOfCheck(report.val, 4)[1].passed
                       <=> RendersWith(store, args.template, EmptyMap)
           ELSE /\ Len(ResultsOfCheck(report.val, 4)) =
                       Cardinality(PresetNames(store, args.template))
                /\ \A p \in PresetNames(store, args.template) :
                       \E i \in 1..Len(ResultsOfCheck(report.val, 4)) :
                           /\ ResultsOfCheck(report.val, 4)[i].check = "render:" \o p
                           /\ ResultsOfCheck(report.val, 4)[i].passed
                                  <=> PresetRenders(store, args.template, p)


-----------------------------------------------------------------------------
(* Two processes that call emit_run_packet for one run directory and one    *)
(* template within one second.  Each file system call of a process is one   *)
(* step; the steps of the two processes interleave.                         *)

Emitters == {1, 2}

RaceName == "t1"

RaceParams ==
    { [k \in {"a"} |-> StrV("v")],
      [k \in {"a"} |-> StrV("w")] }

\* a call that has not begun: its arguments, the two readings of the clock
\* and the exception raised
Emitter(text, params) ==
    [at |-> "run_dir.mkdir", text |-> text, params |-> params,
     timestamp |-> 0, raised |-> ""]

InitRace ==
    /\ pc = "race"
    /\ fs \in {EmptyMap, [q \in {RunDir} |-> Dir], [q \in {RunDir} |-> File("")]}
    /\ clock = 0
    /\ template_name = RaceName
    /\ started = 0
    /\ calls = 0
    /\ emitted = NotCalled
    /\ emitters \in [Emitters -> {Emitter(text, params) :
                                     text \in PacketTexts, params \in RaceParams}]
    /\ IdleExcept({"packet", "race"})

\* the packet directory of process p
RacePacketDir(p) == RunDir \o "/" \o strftime(emitters[p].timestamp) \o "_" \o RaceName

\* process p has made the file system call that led to io: it goes on to
\* step `next`, or stops with the exception raised
Stepped(p, io, next) ==
    /\ fs' = io.fs
    /\ emitters' = [emitters EXCEPT ![p].at = IF io.raised = "" THEN next ELSE "raised",
                                    ![p].raised = io.raised]
    /\ UNCHANGED <<pc, clock, template_name, started, calls, emitted>>
    /\ Frame({"packet", "race"})

\* time passes within the second
TickWithinSecond ==
    /\ clock + 1 < TicksPerSecond
    /\ clock' = clock + 1
    /\ UNCHANGED <<pc, fs, template_name, started, calls, emitted, emitters>>
    /\ Frame({"packet", "race"})

\* line 431
MkdirRunDir(p) ==
    /\ emitters[p].at = "run_dir.mkdir"
    /\ Stepped(p, mkdir(IO(fs), RunDir), "strftime")

\* lines 434-435
ReadClock(p) ==
    /\ emitters[p].at = "strftime"
    /\ emitters' = [emitters EXCEPT ![p].at = "packet_dir.mkdir", ![p].timestamp = clock]
    /\ UNCHANGED <<pc, fs, clock, template_name, started, calls, emitted>>
    /\ Frame({"packet", "race"})

\* line 436
MkdirPacketDir(p) ==
    /\ emitters[p].at = "packet_dir.mkdir"
    /\ Stepped(p, mkdir(IO(fs), RacePacketDir(p)), "prompt_file.write_text")

\* lines 439-440
WritePromptFile(p) ==
    /\ emitters[p].at = "prompt_file.write_text"
    /\ Stepped(p, WritePrompt(IO(fs), RacePacketDir(p), emitters[p].text),
               "params_file.write_text")

\* lines 443-447
WriteParamsFile(p) ==
    /\ emitters[p].at = "params_file.write_text"
    /\ Stepped(p, WriteParams(IO(fs), RacePacketDir(p), emitters[p].params),
               "meta_file.write_text")

\* lines 450-463
WriteMetaFile(p) ==
    /\ emitters[p].at = "meta_file.write_text"
    /\ Stepped(p, WriteMeta(IO(fs), RacePacketDir(p),
                            Meta(RaceName, emitters[p].text, emitters[p].params, clock)),
               "returned")

NextRace ==
    \/ TickWithinSecond
    \/ \E p \in Emitters : MkdirRunDir(p)
    \/ \E p \in Emitters : ReadClock(p)
    \/ \E p \in Emitters : MkdirPacketDir(p)
    \/ \E p \in Emitters : WritePromptFile(p)
    \/ \E p \in Emitters : WriteParamsFile(p)
    \/ \E p \in Emitters : WriteMetaFile(p)

SpecRace == InitRace /\ [][NextRace]_vars

\* C26 as stated: when two calls of emit_run_packet for the same run
\* directory and template fall in the same second and their file writes
\* interleave, the packet directory is self-consistent once both have
\* returned: the prompt_hash of meta.json is the digest of the prompt.md of
\* the directory, and its params_hash is that of the parameters of the
\* params.resolved.json of the directory.
C26_InterleavedPacketConsistent ==
    (\A p \in Emitters : emitters[p].at = "returned") =>
        /\ PacketParamsRead.ok
        /\ MetaRecords(compute_hash(PacketFile("prompt.md")),
                       compute_hash(Dumps(PacketParamsRead.val, 0, 0)))


-----------------------------------------------------------------------------
(* The preset check and the render check of one run *)

\* the results of the run that has returned: those of validate_template, or
\* those of the report of validate_all_templates
RunResults == IF pc = "doctor:one" THEN report.val ELSE report.val.results

\* the run has a result of template n and check c that passed, or failed
HasResult(n, c, ok) ==
    \E i \in 1..Len(RunResults) :
        /\ RunResults[i].template = n
        /\ RunResults[i].check = c
        /\ RunResults[i].passed = ok

\* C27: within one run of validate_template over an unchanged store, for
\* every preset p, if the render check "render:p" passed then the preset check
\* "preset:p" passed too; a preset fails validation only together with the
\* render check.
C27_RenderPassedImpliesPresetPassed ==
    (pc \in {"doctor:one", "doctor:all"} /\ report.raised = "") =>
        \A n \in DOMAIN store : \A p \in PresetNames(store, n) :
            /\ HasResult(n, "render:" \o p, TRUE) =>
                   /\ HasResult(n, "preset:" \o p, TRUE)
                   /\ ~HasResult(n, "preset:" \o p, FALSE)
            /\ HasResult(n, "preset:" \o p, FALSE) =>
                   /\ ~HasResult(n, "render:" \o p, TRUE)
                   /\ HasResult(n, "render:" \o p, FALSE) \/ HasResult(n, "render", FALSE)

\* a run over a template whose preset passes both checks and a template whose
\* preset fails both
C27_Witness ==
    /\ pc = "doctor:all"
    /\ report.raised = ""
    /\ HasResult("t1", "render:default", TRUE) /\ HasResult("t1", "preset:default", TRUE)
    /\ HasResult("t2", "preset:p", FALSE) /\ HasResult("t2", "render:p", FALSE)


-----------------------------------------------------------------------------
(* The normal form of a text *)

\* text t is in normal form: no carriage return, no line that ends in white
\* space, no blank line at the end
NormalForm(t) ==
    /\ ~Contains(t, "\r")
    /\ \A i \in 1..Len(t) : At(t, i) \in {" ", "\t"} => At(t, i + 1) \notin {"", "\n"}
    /\ At(t, Len(t)) # "\n"

\* C28: normalize_text is idempotent: for every text t,
\* normalize_text(normalize_text(t)) equals normalize_text(t), and the result
\* contains no carriage return, no line ending in white space and no trailing
\* blank line.
C28_NormalizeIsIdempotent ==
    pc = "normalized" =>
        \A k \in 1..2 :
            /\ normalize_text(normalized[k]) = normalized[k]
            /\ NormalForm(normalized[k])

\* a text with white space before a CRLF and a blank line at its end
C28_Witness ==
    /\ pc = "normalized"
    /\ original = "a \r\n"
    /\ changed = "a \r\n\r"
    /\ normalized[1] = "a" /\ normalized[2] = "a"
    /\ normalize_text("a") = "a"


-----------------------------------------------------------------------------
(* The names list_presets returns, and load_preset on them *)

\* C29 as stated: for every content of the examples directory of a template,
\* list_presets returns each preset name at most once, and for every name it
\* returns load_preset finds a file and does not fail with
\* PresetNotFoundError, also when both <name>.yaml and <name>.yml exist.
C29_PresetNamesOnceAndLoadable ==
    (pc = "store:list_presets" /\ outcome.raised = "") =>
        /\ \A i, j \in 1..Len(outcome.val) : i # j => outcome.val[i] # outcome.val[j]
        /\ \A i \in 1..Len(outcome.val) :
               /\ \E f \in DOMAIN store[args.template].examples :
                      f \in {outcome.val[i] \o ".yaml", outcome.val[i] \o ".yml"}
               /\ load_preset(store, args.template, outcome.val[i]).raised = ""


-----------------------------------------------------------------------------
(* The doctor on a store without templates *)

\* the checks of template n that the report has results of
ChecksOf(r, n) == {CheckOf(ResultsAbout(r, n)[i]) : i \in 1..Len(ResultsAbout(r, n))}

\* C30: validate_all_templates on a store with no templates returns a report
\* that fails, holding exactly one failed "templates_exist" result, although a
\* DoctorReport with no results passes; so the doctor command never exits 0
\* without having checked at least one template.
C30_NoTemplatesFails ==
    pc = "exited" =>
        /\ passed(DoctorReport(<<>>))
        /\ (args.template = "" /\ TemplatesOf(store) = {}) =>
               /\ report.raised = ""
               /\ Len(report.val.results) = 1
               /\ report.val.results[1].check = "templates_exist"
               /\ ~report.val.results[1].passed
               /\ ~passed(report.val)
               /\ exit_code = 1
        /\ exit_code = 0 =>
               /\ report.raised = ""
               /\ \E n \in TemplatesOf(store) : ChecksOf(report.val, n) = 1..5
               /\ \A i \in 1..Len(report.val.results) :
                      report.val.results[i].template \in TemplatesOf(store)

\* the doctor has run on a store that holds a directory, but no template
C30_Witness ==
    /\ pc = "exited"
    /\ args.template = ""
    /\ DOMAIN store = {"t1"}
    /\ TemplatesOf(store) = {}
    /\ exit_code = 1
    /\ report.raised = ""
    /\ report.val.results[1].check = "templates_exist"
    /\ Len(stdout) = 1


=============================================================================
